---- MODULE Spec2Model ----
(***************************************************************************)
(* A model of the synapse compiler (src/src/compiler.rs) and of its stack  *)
(* virtual machine (src/src/vm.rs).                                        *)
(*                                                                         *)
(* Offsets.  compiler.rs keeps the code as a Vec<Opcode>: an instruction   *)
(* together with its inline immediate is ONE element, and every offset the *)
(* compiler computes (code.len(), jump targets, function locations) counts *)
(* elements.  emit_u32 appends four Raw elements, one per byte.  vm.rs     *)
(* walks the same code with a byte pointer.  The model keeps the compiler's*)
(* unit: ip is the 0-based index of an element; reading an inline          *)
(* immediate stays inside the element, reading a u32 written by emit_u32   *)
(* moves over four Raw elements, and a pointer bump of n bytes moves over  *)
(* whole elements of that many bytes (InsnBytes).                          *)
(*                                                                         *)
(* Numbers are f64 in the source; the model keeps the integers among them. *)
(***************************************************************************)
EXTENDS Integers, Sequences, FiniteSets, TLC

(***************************************************************************)
(* AST (src/src/parser.rs)                                                 *)
(***************************************************************************)
PrintStatement(e) == [k |-> "Print", expression |-> e]
FnStatement(n, a, b) == [k |-> "Fn", name |-> n, arguments |-> a, body |-> b]
ReturnStatement(e) == [k |-> "Return", expression |-> e]
IfStatement(c, t, e) == [k |-> "If", condition |-> c, if_branch |-> t, else_branch |-> e]
WhileStatement(c, b) == [k |-> "While", condition |-> c, body |-> b]
ForStatement(i, c, a, b) ==
    [k |-> "For", initializer |-> i, condition |-> c, advancement |-> a, body |-> b]
BreakStatement == [k |-> "Break"]
ContinueStatement == [k |-> "Continue"]
StructStatement(n, m) == [k |-> "Struct", name |-> n, members |-> m]
ImplStatement(n, m) == [k |-> "Impl", name |-> n, methods |-> m]
BlockStatement(b) == [k |-> "Block", body |-> b]
ExpressionStatement(e) == [k |-> "Expression", expression |-> e]
Dummy == [k |-> "Dummy"]

LiteralNum(n) == [k |-> "Literal", lit |-> "Num", value |-> n]
LiteralString(s) == [k |-> "Literal", lit |-> "String", value |-> s]
LiteralBool(b) == [k |-> "Literal", lit |-> "Bool", value |-> b]
LiteralNull == [k |-> "Literal", lit |-> "Null"]
VariableExpression(v) == [k |-> "Variable", value |-> v]
BinaryExpression(kind, l, r) == [k |-> "Binary", kind |-> kind, lhs |-> l, rhs |-> r]
CallExpression(c, a) == [k |-> "Call", callee |-> c, arguments |-> a]
AssignExpression(l, o, r) == [k |-> "Assign", lhs |-> l, op |-> o, rhs |-> r]
LogicalExpression(l, o, r) == [k |-> "Logical", lhs |-> l, op |-> o, rhs |-> r]
UnaryExpression(o, e) == [k |-> "Unary", op |-> o, expr |-> e]
GetExpression(e, o, m) == [k |-> "Get", expr |-> e, op |-> o, member |-> m]
StructExpression(n, i) == [k |-> "Struct", name |-> n, initializers |-> i]
StructInitializerExpression(m, v) == [k |-> "StructInitializer", member |-> m, value |-> v]
VecExpression(e) == [k |-> "Vec", elements |-> e]
SubscriptExpression(e, i) == [k |-> "Sub", expr |-> e, index |-> i]

(***************************************************************************)
(* Compiler (src/src/compiler.rs)                                          *)
(***************************************************************************)
\* HashMap: a function from keys to values.
EmptyMap == [x \in {} |-> 0]
Has(m, key) == key \in DOMAIN m
Put(m, key, val) == [x \in DOMAIN m \cup {key} |-> IF x = key THEN val ELSE m[x]]

\* An element of Bytecode.code: an opcode with its inline immediate, or a Raw byte.
Op(o, x) == [op |-> o, x |-> x]
Op0(o) == [op |-> o, x |-> 0]

\* The target 0xFFFFFFFF of a jump that is patched later; it is no offset of any
\* code the model compiles, and is written -1 here.
Placeholder == -1

Function(n, loc, pc, lc) ==
    [name |-> n, location |-> loc, paramcount |-> pc, localscount |-> lc]
Blueprint(n, mem, meth) == [name |-> n, members |-> mem, methods |-> meth]

\* Compiler::new.  err is the Err(..) a codegen returned ("" while Ok); log, blocks,
\* impls, returns, loops, open_loops, jumps, logics and compounds record what the code
\* generators did (history, read by no generator).
new ==
    [code |-> <<>>, sp |-> <<>>, functions |-> EmptyMap, locals |-> <<>>,
     pops |-> <<>>, structs |-> EmptyMap, breaks |-> <<>>, loop_starts |-> <<>>,
     loop_depths |-> <<>>, depth |-> 0, err |-> "",
     log |-> <<>>, blocks |-> <<>>, impls |-> <<>>, returns |-> <<>>,
     loops |-> <<>>, open_loops |-> <<>>, jumps |-> <<>>, logics |-> <<>>,
     compounds |-> <<>>, vecs |-> <<>>, literals |-> <<>>, stmts |-> <<>>,
     reads |-> <<>>, bases |-> <<>>, assigns |-> <<>>, callsites |-> <<>>,
     patches |-> <<>>]

ok(cs) == cs.err = ""

\* bail!(msg) or a panic inside a code generator; every later step of the compilation
\* is skipped (the `?` of the source), so each step below leaves a failed cs alone.
bail(cs, msg) == IF ok(cs) THEN [cs EXCEPT !.err = msg] ELSE cs

\* add_string without the search of the pool.
AddStringAlways(sp, s) == [sp |-> Append(sp, s), idx |-> Len(sp)]

add_string(sp, s) ==
    IF \E i \in 1..Len(sp) : sp[i] = s
    THEN [sp |-> sp, idx |-> (CHOOSE i \in 1..Len(sp) :
                                /\ sp[i] = s
                                /\ \A j \in 1..(i - 1) : sp[j] # s) - 1]
    ELSE [sp |-> Append(sp, s), idx |-> Len(sp)]

emit_opcodes(cs, opcodes) == IF ok(cs) THEN [cs EXCEPT !.code = @ \o opcodes] ELSE cs

emit_u32(cs, value) ==
    emit_opcodes(cs, << Op("Raw", (value \div 16777216) % 256),
                        Op("Raw", (value \div 65536) % 256),
                        Op("Raw", (value \div 256) % 256),
                        Op("Raw", value % 256) >>)

\* add_string followed by emit_u32 of the index, as every caller does.
emit_string(cs, s) ==
    IF ok(cs)
    THEN emit_u32([cs EXCEPT !.sp = add_string(cs.sp, s).sp], add_string(cs.sp, s).idx)
    ELSE cs

emit_stack_cleanup(cs) ==
    IF ~ok(cs) THEN cs
    ELSE IF cs.pops = <<>> THEN bail(cs, "called Option::unwrap() on a None value")
    ELSE emit_opcodes(cs, << Op("Pop", cs.pops[Len(cs.pops)]) >>)

\* emit_loop_cleanup that starts at the counter of the loop's own depth.
LoopCleanupFromLoopDepth(cs) ==
    IF ~ok(cs) \/ cs.loop_depths = <<>> THEN cs
    ELSE IF \E i \in cs.loop_depths[Len(cs.loop_depths)]..(cs.depth - 1) :
                i + 1 > Len(cs.pops)
    THEN bail(cs, "panic: index out of bounds")
    ELSE emit_opcodes(cs, [j \in 1..(cs.depth - cs.loop_depths[Len(cs.loop_depths)]) |->
                              Op("Pop", cs.pops[cs.loop_depths[Len(cs.loop_depths)] + j])])

emit_loop_cleanup(cs) ==
    IF ~ok(cs) \/ cs.loop_depths = <<>> THEN cs
    ELSE IF \E i \in (cs.loop_depths[Len(cs.loop_depths)] + 1)..cs.depth :
                i + 1 > Len(cs.pops)
    THEN bail(cs, "panic: index out of bounds")
    ELSE emit_opcodes(cs, [j \in 1..(cs.depth - cs.loop_depths[Len(cs.loop_depths)]) |->
                              Op("Pop", cs.pops[cs.loop_depths[Len(cs.loop_depths)] + j + 1])])

\* locals.iter().position(name)
position(locals, name) ==
    (CHOOSE i \in 1..Len(locals) :
        /\ locals[i] = name
        /\ \A j \in 1..(i - 1) : locals[j] # name) - 1

\* A name that is read, or whose address is taken, is noted in reads with the locals
\* and pops it met.
NoteRead(cs, name) ==
    [cs EXCEPT !.reads = Append(@, [name |-> name, locals |-> cs.locals,
                                    pops |-> cs.pops])]

\* The (idx, fresh) pair comes back as r.idx, r.fresh, next to the compiler r.c.
resolve_local(cs, name) ==
    IF \E i \in 1..Len(cs.locals) : cs.locals[i] = name
    THEN [c |-> [cs EXCEPT !.log = Append(@, [e |-> "resolve", name |-> name,
                         idx |-> position(cs.locals, name), fresh |-> FALSE,
                         depth |-> cs.depth,
                         before |-> cs.locals, after |-> cs.locals])],
          idx |-> position(cs.locals, name), fresh |-> FALSE]
    ELSE [c |-> [cs EXCEPT !.locals = Append(@, name),
                           !.log = Append(@, [e |-> "resolve", name |-> name,
                         idx |-> Len(cs.locals), fresh |-> TRUE, depth |-> cs.depth,
                         before |-> cs.locals, after |-> Append(cs.locals, name)])],
          idx |-> Len(cs.locals), fresh |-> TRUE]

\* patch_jmp with code.len() in place of code.len() - 1.
PatchJmpPastNext(cs, idx) ==
    IF ~ok(cs) THEN cs
    ELSE IF idx + 1 \in 1..Len(cs.code)
    THEN IF cs.code[idx + 1].op \in {"Jmp", "Jz"}
         THEN [cs EXCEPT !.code[idx + 1].x = Len(cs.code)]
         ELSE bail(cs, "panic: unreachable")
    ELSE cs

patch_jmp(cs, idx) ==
    IF ~ok(cs) THEN cs
    ELSE IF idx + 1 \in 1..Len(cs.code)
    THEN IF cs.code[idx + 1].op \in {"Jmp", "Jz"}
         THEN [cs EXCEPT !.code[idx + 1].x = Len(cs.code) - 1,
                         !.patches = Append(@, [idx |-> idx, was |-> cs.code[idx + 1].x,
                                                now |-> Len(cs.code) - 1])]
         ELSE bail(cs, "panic: unreachable")
    ELSE cs

\* Vec::pop of the last n entries.
DropLast(s, n) == SubSeq(s, 1, Len(s) - n)
Last(s) == s[Len(s)]

handle_specialized_operator(cs, operator) ==
    emit_opcodes(cs, << Op0(CASE operator = "PlusEqual" -> "Add"
                              [] operator = "MinusEqual" -> "Sub"
                              [] operator = "StarEqual" -> "Mul"
                              [] operator = "SlashEqual" -> "Div"
                              [] operator = "PercentEqual" -> "Mod"
                              [] operator = "AmpersandEqual" -> "BitAnd"
                              [] operator = "PipeEqual" -> "BitOr"
                              [] operator = "CaretEqual" -> "BitXor"
                              [] operator = "LessLessEqual" -> "BitShl"
                              [] operator = "GreaterGreaterEqual" -> "BitShr") >>)

RECURSIVE Statement_codegen(_, _), Expression_codegen(_, _)

\* `for x in xs { x.codegen(compiler)?; }`
RECURSIVE codegen_all(_, _, _)
codegen_all(cs, nodes, stmts) ==
    IF nodes = <<>> \/ ~ok(cs) THEN cs
    ELSE codegen_all(IF stmts THEN Statement_codegen(cs, Head(nodes))
                              ELSE Expression_codegen(cs, Head(nodes)),
                     Tail(nodes), stmts)

Reverse(s) == [i \in 1..Len(s) |-> s[Len(s) + 1 - i]]

\* cs.assigns records, per plain assignment to a variable, what resolve_local returned,
\* where its code begins, where the code of the value ends and where its own code ends,
\* and pops before and after it.
compile_variable_assignment(cs, assign_expr, variable_expr, is_specialized, operator) ==
    LET declare(c, r) ==
            IF ~ok(c) THEN c
            ELSE IF ~r.fresh THEN emit_opcodes(c, << Op("Deepset", r.idx) >>)
            ELSE IF c.pops = <<>> THEN bail(c, "compiler: tried to pop an empty stack.")
            ELSE [c EXCEPT !.pops[Len(c.pops)] = @ + 1]
        value(r) ==
            IF is_specialized
            THEN handle_specialized_operator(
                     Expression_codegen(emit_opcodes(r.c, << Op("Deepget", r.idx) >>),
                                        assign_expr.rhs),
                     operator)
            ELSE Expression_codegen(r.c, assign_expr.rhs)
        note(c, r) ==
            IF ~ok(c) \/ is_specialized THEN c
            ELSE [c EXCEPT !.assigns = Append(@,
                     [name |-> variable_expr.value, idx |-> r.idx, fresh |-> r.fresh,
                      first |-> Len(cs.code), value |-> Len(value(r).code),
                      end |-> Len(c.code), was |-> cs.pops, now |-> c.pops])]
        resolved(r) == note(declare(value(r), r), r)
    IN  resolved(resolve_local(IF is_specialized THEN NoteRead(cs, variable_expr.value)
                                                 ELSE cs,
                               variable_expr.value))

compile_unary_assignment(cs, unary_expr, rhs, is_specialized, operator) ==
    LET specialized(c) == IF is_specialized THEN handle_specialized_operator(c, operator)
                          ELSE c
    IN  emit_opcodes(
            specialized(Expression_codegen(Expression_codegen(cs, unary_expr.expr), rhs)),
            << Op0("DerefSet") >>)

compile_get_assignment(cs, get_expr, rhs, is_specialized, operator) ==
    LET arrow(c) == IF get_expr.op = "Arrow" THEN emit_opcodes(c, << Op0("Deref") >>)
                    ELSE c
        getattr(c) == IF is_specialized
                      THEN emit_opcodes(c, << Op("Getattr", get_expr.member) >>) ELSE c
        specialized(c) == IF is_specialized THEN handle_specialized_operator(c, operator)
                          ELSE c
    IN  emit_opcodes(
            specialized(Expression_codegen(
                getattr(arrow(Expression_codegen(cs, get_expr.expr))), rhs)),
            << Op("Setattr", get_expr.member), Op("Pop", 1) >>)

compile_subscript_assignment(cs, sub_expr, e, is_specialized, operator) ==
    LET lhs(c) == IF is_specialized THEN Expression_codegen(c, e.lhs) ELSE c
        specialized(c) == IF is_specialized THEN handle_specialized_operator(c, operator)
                          ELSE c
    IN  emit_opcodes(
            specialized(Expression_codegen(
                lhs(Expression_codegen(Expression_codegen(cs, sub_expr.expr),
                                       sub_expr.index)),
                e.rhs)),
            << Op0("VecSet") >>)

PrintStatement_codegen(cs, s) ==
    emit_opcodes(Expression_codegen(cs, s.expression), << Op0("Print") >>)

\* cs.blocks records, per block, where its code starts, where its closing Pop is, its
\* depth, and the index in pops of the counter it took off at its end.
BlockStatement_codegen(cs, s) ==
    LET leave(c) ==
            IF ~ok(c) THEN c
            ELSE [c EXCEPT !.pops = DropLast(@, 1), !.depth = @ - 1,
                           !.bases = DropLast(@, 1),
                           !.log = Append(@, [e |-> "exit", depth |-> c.depth]),
                           !.blocks = Append(@, [start |-> Len(cs.code),
                                                 pop |-> Len(c.code) - 1,
                                                 depth |-> c.depth,
                                                 slot |-> Len(c.pops) - 1])]
        cleanup(c) ==
            IF ~ok(c) THEN c
            ELSE IF c.pops = <<>> THEN bail(c, "called Option::unwrap() on a None value")
            ELSE leave(emit_stack_cleanup([c EXCEPT !.locals = DropLast(@, Last(c.pops))]))
    IN  cleanup(codegen_all([cs EXCEPT !.depth = @ + 1, !.pops = Append(@, 0),
                                       !.bases = Append(@, Len(cs.locals))],
                            s.body, TRUE))

\* FnStatement_codegen that ends every body with a Ret of its own.
FnReturnsAtEnd(cs, s) ==
    LET leave(c) ==
            IF ~ok(c) THEN c
            ELSE [c EXCEPT !.functions[s.name].localscount = Len(c.locals),
                           !.locals = <<>>, !.pops = <<>>, !.bases = <<>>]
        body(c) == IF s.body.k = "Block"
                   THEN emit_opcodes(BlockStatement_codegen(c, s.body), << Op0("Ret") >>)
                   ELSE c
        enter(c) ==
            IF ~ok(c) THEN c
            ELSE [c EXCEPT !.functions = Put(@, s.name, Function(s.name, Len(cs.code),
                                                                 Len(s.arguments), 0)),
                           !.locals = @ \o s.arguments,
                           !.pops = Append(@, Len(c.locals) + Len(s.arguments)),
                           !.bases = Append(@, 0),
                           !.log = @ \o << [e |-> "fn", name |-> s.name,
                                             paramcount |-> Len(s.arguments),
                                             at |-> Len(cs.code)] >> \o
                                   [i \in 1..Len(s.arguments) |->
                                       [e |-> "param", name |-> s.arguments[i],
                                        idx |-> Len(c.locals) + i - 1]]]
    IN  leave(patch_jmp(body(enter(emit_opcodes(cs, << Op("Jmp", Placeholder) >>))),
                        Len(cs.code)))

\* cs.log records, as "left", what locals, pops and depth hold when the function is done.
FnStatement_codegen(cs, s) ==
    LET left(c) ==
            [c EXCEPT !.log = Append(@, [e |-> "left", name |-> s.name,
                                         locals |-> c.locals, pops |-> c.pops,
                                         depth |-> c.depth])]
        leave(c) ==
            IF ~ok(c) THEN c
            ELSE left([c EXCEPT !.functions[s.name].localscount = Len(c.locals),
                                !.locals = <<>>, !.pops = <<>>, !.bases = <<>>])
        body(c) == IF s.body.k = "Block" THEN BlockStatement_codegen(c, s.body) ELSE c
        enter(c) ==
            IF ~ok(c) THEN c
            ELSE [c EXCEPT !.functions = Put(@, s.name, Function(s.name, Len(cs.code),
                                                                 Len(s.arguments), 0)),
                           !.locals = @ \o s.arguments,
                           !.pops = Append(@, Len(c.locals) + Len(s.arguments)),
                           !.bases = Append(@, 0),
                           !.log = @ \o << [e |-> "fn", name |-> s.name,
                                             paramcount |-> Len(s.arguments),
                                             at |-> Len(cs.code)] >> \o
                                   [i \in 1..Len(s.arguments) |->
                                       [e |-> "param", name |-> s.arguments[i],
                                        idx |-> Len(c.locals) + i - 1]]]
    IN  leave(patch_jmp(body(enter(emit_opcodes(cs, << Op("Jmp", Placeholder) >>))),
                        Len(cs.code)))

IfStatement_codegen(cs, s) ==
    LET else_branch(c, jz_idx) ==
            patch_jmp(Statement_codegen(
                          patch_jmp(emit_opcodes(c, << Op("Jmp", Placeholder) >>), jz_idx),
                          s.else_branch),
                      Len(c.code))
        if_branch(c) ==
            else_branch(Statement_codegen(emit_opcodes(c, << Op("Jz", Placeholder) >>),
                                          s.if_branch),
                        Len(c.code))
    IN  if_branch(Expression_codegen(cs, s.condition))

\* The breaks of a loop taken off the list without being patched.
BreaksDropped(cs, pop) ==
    IF pop <= 0 \/ ~ok(cs) THEN cs
    ELSE [cs EXCEPT !.breaks = SubSeq(@, 1, Len(@) - pop)]

\* `for _ in 0..pop { let break_jump = breaks.pop().unwrap(); patch_jmp(break_jump); }`
RECURSIVE patch_breaks(_, _)
patch_breaks(cs, pop) ==
    IF pop <= 0 \/ ~ok(cs) THEN cs
    ELSE patch_breaks(patch_jmp([cs EXCEPT !.breaks = DropLast(@, 1)], Last(cs.breaks)),
                      pop - 1)

\* cs.loops records, per loop, the positions of its parts: first (of the statement),
\* cond, jz (the exit test), next (where continue goes: the condition of a while, the
\* advancement of a for), body, last, exit (where the exit test and break go) and
\* after (the first instruction after the statement).
\* The three lists the loops keep, as cs.loops records them on entry (was) and on
\* leaving (now).
LoopLists(c) ==
    [loop_starts |-> c.loop_starts, loop_depths |-> c.loop_depths, breaks |-> c.breaks]

WhileStatement_codegen(cs, s) ==
    LET leave(c, jz_idx) ==
            IF ~ok(c) THEN c
            ELSE patch_jmp([c EXCEPT !.loop_starts = DropLast(@, 1),
                                     !.open_loops = DropLast(@, 1),
                                     !.loops = Append(@,
                                         [kind |-> "while", first |-> Len(cs.code),
                                          cond |-> Len(cs.code), jz |-> jz_idx,
                                          next |-> Len(cs.code), body |-> jz_idx + 1,
                                          last |-> Len(c.code) - 1,
                                          exit |-> Len(c.code),
                                          after |-> Len(c.code),
                                          was |-> LoopLists(cs),
                                          now |-> LoopLists(
                                              [c EXCEPT !.loop_starts =
                                                            DropLast(@, 1)])])],
                           jz_idx)
        breaks(c, jz_idx) == leave(patch_breaks(c, Len(c.breaks) - Len(cs.breaks)), jz_idx)
        after(c, jz_idx) ==
            IF ~ok(c) THEN c
            ELSE breaks(emit_opcodes([c EXCEPT !.loop_depths = DropLast(@, 1)],
                                     << Op("Jmp", Len(cs.code) - 1) >>),
                        jz_idx)
        enter(c) ==
            IF ~ok(c) THEN c
            ELSE [c EXCEPT !.loop_depths = Append(@, c.depth),
                           !.open_loops[Len(c.open_loops)].body = Len(c.code)]
        body(c) ==
            after(Statement_codegen(enter(emit_opcodes(c, << Op("Jz", Placeholder) >>)),
                                    s.body),
                  Len(c.code))
    IN  body(Expression_codegen([cs EXCEPT !.loop_starts = Append(@, Len(cs.code) - 1),
                                           !.open_loops = Append(@,
                                               [first |-> Len(cs.code),
                                                cond |-> Len(cs.code), body |-> 0])],
                                s.condition))

ForStatement_codegen(cs, s) ==
    IF ~(s.initializer.k = "Assign") THEN cs
    ELSE IF ~(s.initializer.lhs.k = "Variable") THEN cs
    ELSE
    LET leave(c, exit_jump) ==
            IF ~ok(c) THEN c
            ELSE emit_opcodes(patch_jmp([c EXCEPT !.locals = DropLast(@, 1),
                                                  !.loop_starts = DropLast(@, 1),
                                                  !.open_loops = DropLast(@, 1),
                                                  !.loops = Append(@,
                                                      [kind |-> "for",
                                                       var |-> s.initializer.lhs.value,
                                                       slot |-> Len(cs.locals),
                                                       from |-> Len(cs.log),
                                                       to |-> Len(c.log),
                                                       removed |->
                                                           [name |-> Last(c.locals),
                                                            idx |-> Len(c.locals) - 1],
                                                       first |-> Len(cs.code),
                                                       cond |-> Last(c.open_loops).cond,
                                                       jz |-> exit_jump,
                                                       next |-> exit_jump + 2,
                                                       body |-> Last(c.open_loops).body,
                                                       last |-> Len(c.code),
                                                       exit |-> Len(c.code),
                                                       after |-> Len(c.code) + 1,
                                                       was |-> LoopLists(cs),
                                                       now |-> LoopLists(
                                                           [c EXCEPT !.loop_starts =
                                                                DropLast(@, 1)])])],
                                        exit_jump),
                              << Op("Pop", 1) >>)
        breaks(c, exit_jump, break_count) ==
            leave(patch_breaks(c, Len(c.breaks) - break_count), exit_jump)
        after(c, loop_continuation, exit_jump, break_count) ==
            IF ~ok(c) THEN c
            ELSE breaks(emit_opcodes([c EXCEPT !.loop_depths = DropLast(@, 1)],
                                     << Op("Jmp", loop_continuation) >>),
                        exit_jump, break_count)
        enter(c, loop_continuation) ==
            IF ~ok(c) THEN c
            ELSE [c EXCEPT !.loop_starts =
                               IF c.loop_starts # <<>>
                               THEN [c.loop_starts EXCEPT ![Len(c.loop_starts)] =
                                                              loop_continuation]
                               ELSE c.loop_starts,
                           !.loop_depths = Append(@, c.depth),
                           !.open_loops[Len(c.open_loops)].body = Len(c.code)]
        body(c, loop_continuation, exit_jump, break_count) ==
            after(Statement_codegen(enter(c, loop_continuation), s.body),
                  loop_continuation, exit_jump, break_count)
        advancement(c, loop_start, exit_jump, jump_over_advancement, break_count) ==
            body(patch_jmp(emit_opcodes(Expression_codegen(c, s.advancement),
                                        << Op("Jmp", loop_start) >>),
                           jump_over_advancement),
                 Len(c.code) - 1, exit_jump, break_count)
        condition(c, loop_start, break_count) ==
            advancement(emit_opcodes(c, << Op("Jz", Placeholder), Op("Jmp", Placeholder) >>),
                        loop_start, Len(c.code), Len(c.code) + 1, break_count)
        start(c) ==
            IF ~ok(c) THEN c
            ELSE condition(Expression_codegen(
                               [c EXCEPT !.loop_starts = Append(@, Len(c.code) - 1),
                                         !.open_loops[Len(c.open_loops)].cond =
                                             Len(c.code)],
                               s.condition),
                           Len(c.code) - 1, Len(c.breaks))
    IN  start(Expression_codegen([cs EXCEPT !.locals = Append(@, s.initializer.lhs.value),
                                            !.open_loops = Append(@,
                                                [first |-> Len(cs.code), cond |-> 0,
                                                 body |-> 0])],
                                 s.initializer.rhs))

\* cs.log records, per break and continue, how many loops were being compiled and
\* whether the statement was rejected.
NoteJump(cs, kind, check) ==
    [cs EXCEPT !.log = Append(@, [e |-> "jump", kind |-> kind,
                                  open |-> Len(cs.open_loops), check |-> check])]

\* A break compiled without looking at loop_starts.
BreakAnywhere(cs, s) ==
    LET c == emit_loop_cleanup(NoteJump(cs, "break", "passed"))
    IN  IF ~ok(c) THEN c
        ELSE [emit_opcodes(c, << Op("Jmp", Placeholder) >>) EXCEPT
                 !.breaks = Append(@, Len(c.code))]

\* cs.jumps records, per break and continue, where its code starts, where its Jmp is
\* and which loop (by its first position) was the innermost one being compiled.
BreakStatement_codegen(cs, s) ==
    LET jump(c) ==
            IF ~ok(c) THEN c
            ELSE [emit_opcodes(c, << Op("Jmp", Placeholder) >>) EXCEPT
                     !.breaks = Append(@, Len(c.code)),
                     !.jumps = Append(@, [kind |-> "break", first |-> Len(cs.code),
                                          jmp |-> Len(c.code),
                                          loop |-> IF c.open_loops = <<>> THEN 0
                                                   ELSE Last(c.open_loops).first])]
    IN  IF cs.loop_starts # <<>>
        THEN jump(emit_loop_cleanup(NoteJump(cs, "break", "passed")))
        ELSE bail(NoteJump(cs, "break", "outside"), "compiler: break outside a loop")

ContinueStatement_codegen(cs, s) ==
    LET jump(c) ==
            IF ~ok(c) THEN c
            ELSE [emit_opcodes(c, << Op("Jmp", Last(cs.loop_starts)) >>) EXCEPT
                     !.jumps = Append(@, [kind |-> "continue", first |-> Len(cs.code),
                                          jmp |-> Len(c.code),
                                          loop |-> IF c.open_loops = <<>> THEN 0
                                                   ELSE Last(c.open_loops).first])]
    IN  IF cs.loop_starts # <<>>
        THEN jump(emit_loop_cleanup(NoteJump(cs, "continue", "passed")))
        ELSE bail(NoteJump(cs, "continue", "outside"),
                  "compiler: continue outside a loop")

\* `for member in blueprint.members { add_string(member); emit_u32(idx); }`
RECURSIVE emit_strings(_, _)
emit_strings(cs, names) ==
    IF names = <<>> THEN cs ELSE emit_strings(emit_string(cs, Head(names)), Tail(names))

\* The messages of ImplStatement::codegen and StructExpression::codegen.
StructNotDefined(name) == "compiler: struct '" \o name \o "' is not defined"
StructHasMembers(name, n) ==
    "compiler: struct '" \o name \o "' has " \o ToString(n) \o " members"

\* cs.log records every struct declaration with the number of its members.
StructStatement_codegen(cs, s) ==
    emit_strings(
        emit_u32(emit_string(emit_opcodes([cs EXCEPT !.structs =
                                               Put(@, s.name, Blueprint(s.name, s.members,
                                                                        <<>>)),
                                               !.log = Append(@, [e |-> "struct",
                                                                  name |-> s.name,
                                                                  count |-> Len(s.members)])],
                                          << Op0("StructBlueprint") >>),
                             s.name),
                 Len(s.members)),
        s.members)

\* HashMap::insert on the method table, kept as a sequence without repeated names.
InsertMethod(methods, f) ==
    IF \E i \in 1..Len(methods) : methods[i].name = f.name
    THEN [i \in 1..Len(methods) |-> IF methods[i].name = f.name THEN f ELSE methods[i]]
    ELSE Append(methods, f)

\* The loop over self.methods: r.c is the compiler, r.methods the blueprint's table.
RECURSIVE impl_methods(_, _)
impl_methods(r, stmts) ==
    IF stmts = <<>> \/ ~ok(r.c) THEN r
    ELSE IF Head(stmts).k = "Fn"
    THEN impl_methods([c |-> FnStatement_codegen(r.c, Head(stmts)),
                       methods |-> InsertMethod(r.methods,
                                       Function(Head(stmts).name, Len(r.c.code),
                                                Len(Head(stmts).arguments), 0))],
                      Tail(stmts))
    ELSE impl_methods(r, Tail(stmts))

\* The loop that writes one (name, paramcount, location) entry per method.
RECURSIVE emit_methods(_, _)
emit_methods(cs, methods) ==
    IF methods = <<>> THEN cs
    ELSE emit_methods(emit_u32(emit_u32(emit_string(cs, Head(methods).name),
                                        Head(methods).paramcount),
                               Head(methods).location),
                      Tail(methods))

\* cs.impls records, per impl block, the method table that was written.
ImplStatement_codegen(cs, s) ==
    LET table(r) ==
            IF ~ok(r.c) THEN r.c
            ELSE [emit_methods(
                      emit_u32(emit_u32(emit_opcodes(
                                            [r.c EXCEPT !.sp = add_string(r.c.sp, s.name).sp],
                                            << Op0("Impl") >>),
                                        add_string(r.c.sp, s.name).idx),
                               Len(r.methods)),
                      r.methods)
                  EXCEPT !.impls = Append(@, [name |-> s.name, methods |-> r.methods])]
    IN  IF Has(cs.structs, s.name)
        THEN table(impl_methods([c |-> cs, methods |-> cs.structs[s.name].methods],
                                s.methods))
        ELSE bail(cs, StructNotDefined(s.name))

ExpressionStatement_codegen(cs, s) ==
    IF s.expression.k = "Call"
    THEN emit_opcodes(Expression_codegen(cs, s.expression), << Op("Pop", 1) >>)
    ELSE IF s.expression.k = "Assign" THEN Expression_codegen(cs, s.expression)
    ELSE bail(cs, "panic: unreachable")

\* `for _ in 0..locals.len() { emit Deepset(deepset_no); deepset_no = saturating_sub(1) }`
\* cs.returns records where each return's Deepset run starts and where its Ret is.
ReturnStatement_codegen(cs, s) ==
    LET ret(c) ==
            IF ~ok(c) THEN c
            ELSE [emit_opcodes(c, [i \in 1..Len(c.locals) |->
                                      Op("Deepset", Len(c.locals) - i)]
                                  \o << Op0("Ret") >>)
                  EXCEPT !.returns = Append(@, [first |-> Len(c.code),
                                                ret |-> Len(c.code) + Len(c.locals)])]
    IN  ret(Expression_codegen(cs, s.expression))

LiteralExpression_codegen(cs, e) ==
    CASE e.lit = "Num" -> emit_opcodes(cs, << Op("Const", e.value) >>)
      [] e.lit = "Bool" -> IF e.value THEN emit_opcodes(cs, << Op0("False"), Op0("Not") >>)
                           ELSE emit_opcodes(cs, << Op0("False") >>)
      [] e.lit = "String" -> emit_opcodes(cs, << Op("Str", e.value) >>)
      [] e.lit = "Null" -> emit_opcodes(cs, << Op0("Null") >>)

VariableExpression_codegen(cs, e) ==
    LET get(r) == emit_opcodes(r.c, << Op("Deepget", r.idx) >>)
    IN  get(resolve_local(NoteRead(cs, e.value), e.value))

BinaryExpression_codegen(cs, e) ==
    emit_opcodes(Expression_codegen(Expression_codegen(cs, e.lhs), e.rhs),
        CASE e.kind = "Add" -> << Op0("Add") >>
          [] e.kind = "Sub" -> << Op0("Sub") >>
          [] e.kind = "Mul" -> << Op0("Mul") >>
          [] e.kind = "Div" -> << Op0("Div") >>
          [] e.kind = "Mod" -> << Op0("Mod") >>
          [] e.kind = "Equality" -> << Op0("Eq") >>
          [] e.kind = "EqualityNegation" -> << Op0("Eq"), Op0("Not") >>
          [] e.kind = "Less" -> << Op0("Lt") >>
          [] e.kind = "Greater" -> << Op0("Gt") >>
          [] e.kind = "LessEqual" -> << Op0("Gt"), Op0("Not") >>
          [] e.kind = "GreaterEqual" -> << Op0("Lt"), Op0("Not") >>
          [] e.kind = "BitwiseAnd" -> << Op0("BitAnd") >>
          [] e.kind = "BitwiseOr" -> << Op0("BitOr") >>
          [] e.kind = "BitwiseXor" -> << Op0("BitXor") >>
          [] e.kind = "BitwiseShl" -> << Op0("BitShl") >>
          [] e.kind = "BitwiseShr" -> << Op0("BitShr") >>
          [] e.kind = "Strcat" -> << Op0("Strcat") >>)

\* The two messages of CallExpression::codegen.
NotDefined(name) == "compiler: function '" \o name \o "' is not defined"
TakesArguments(name, n) ==
    "compiler: function '" \o name \o "' takes " \o ToString(n) \o " arguments"

\* A direct call compiled without comparing the argument count.
CallUnchecked(cs, e) ==
    IF e.callee.k = "Variable" /\ Has(cs.functions, e.callee.value)
    THEN emit_opcodes(codegen_all([cs EXCEPT !.log = Append(@, [e |-> "call",
                                                                name |-> e.callee.value,
                                                                nargs |-> Len(e.arguments),
                                                                check |-> "passed"])],
                                  e.arguments, FALSE),
                      << Op("Call", Len(e.arguments)),
                         Op("Jmp", cs.functions[e.callee.value].location) >>)
    ELSE bail(cs, "panic: unreachable")

\* cs.log records, per direct call, the callee, the number of arguments and the check
\* that stopped it ("passed" when none did).
CallExpression_codegen(cs, e) ==
    LET method(c) ==
            IF ~ok(c) THEN c
            ELSE emit_u32(emit_u32(emit_opcodes(
                                       [c EXCEPT !.sp = add_string(c.sp, e.callee.member).sp],
                                       << Op0("CallMethod") >>),
                                   add_string(c.sp, e.callee.member).idx),
                          Len(e.arguments))
        arrow(c) == IF e.callee.op = "Arrow" THEN emit_opcodes(c, << Op0("Deref") >>)
                    ELSE c
        note(check) ==
            [cs EXCEPT !.log = Append(@, [e |-> "call", name |-> e.callee.value,
                                          nargs |-> Len(e.arguments), check |-> check])]
        site(c) ==
            IF ~ok(c) THEN c
            ELSE [c EXCEPT !.callsites = Append(@,
                     [name |-> e.callee.value, first |-> Len(cs.code),
                      op |-> Len(c.code) - 2,
                      ends |-> [i \in 1..Len(e.arguments) |->
                                  Len(codegen_all(cs, SubSeq(e.arguments, 1, i),
                                                  FALSE).code)]])]
    IN  IF e.callee.k = "Variable"
        THEN IF ~Has(cs.functions, e.callee.value)
             THEN bail(note("undefined"), NotDefined(e.callee.value))
             ELSE IF cs.functions[e.callee.value].paramcount # Len(e.arguments)
             THEN bail(note("arity"),
                       TakesArguments(cs.functions[e.callee.value].name,
                                      cs.functions[e.callee.value].paramcount))
             ELSE site(emit_opcodes(codegen_all(note("passed"), e.arguments, FALSE),
                                    << Op("Call", Len(e.arguments)),
                                       Op("Jmp", cs.functions[e.callee.value].location) >>))
        ELSE IF e.callee.k = "Get"
        THEN method(codegen_all(arrow(Expression_codegen(cs, e.callee.expr)),
                                e.arguments, FALSE))
        ELSE bail(cs, "panic: unreachable")

\* The opcodes handle_specialized_operator emits.
SpecializedOpcodes ==
    { "Add", "Sub", "Mul", "Div", "Mod", "BitAnd", "BitOr", "BitXor", "BitShl", "BitShr" }

\* What a left-hand side names, when it is built on a local that exists: the local
\* itself, what the pointer in it points to, a member of the struct in it (or behind
\* the pointer in it), an element of the vec in it.
TargetOf(locals, lhs) ==
    LET known(v) == v.k = "Variable" /\ \E i \in 1..Len(locals) : locals[i] = v.value
        none == [kind |-> "other", idx |-> 0, member |-> "", arrow |-> FALSE, i |-> 0]
    IN  IF lhs.k = "Variable" /\ known(lhs)
        THEN [none EXCEPT !.kind = "var", !.idx = position(locals, lhs.value)]
        ELSE IF lhs.k = "Unary" /\ lhs.op = "Star" /\ known(lhs.expr)
        THEN [none EXCEPT !.kind = "deref", !.idx = position(locals, lhs.expr.value)]
        ELSE IF lhs.k = "Get" /\ known(lhs.expr)
        THEN [none EXCEPT !.kind = "member", !.idx = position(locals, lhs.expr.value),
                          !.member = lhs.member, !.arrow = (lhs.op = "Arrow")]
        ELSE IF lhs.k = "Sub" /\ known(lhs.expr) /\ lhs.index.k = "Literal"
        THEN [none EXCEPT !.kind = "elem", !.idx = position(locals, lhs.expr.value),
                          !.i = lhs.index.value]
        ELSE none

\* cs.compounds records, per compound assignment to such a target, the target, where
\* the code of the assignment starts and ends, and where its operator is.
AssignExpression_codegen(cs, e) ==
    LET note(c) ==
            IF ~ok(c) \/ e.op = "Equal" \/ TargetOf(cs.locals, e.lhs).kind = "other"
            THEN c
            ELSE LET ops == { i \in Len(cs.code)..(Len(c.code) - 1) :
                                c.code[i + 1].op \in SpecializedOpcodes }
                 IN  [c EXCEPT !.compounds = Append(@,
                         [target |-> TargetOf(cs.locals, e.lhs),
                          first |-> Len(cs.code), end |-> Len(c.code),
                          opidx |-> CHOOSE i \in ops : \A j \in ops : j <= i])]
    IN  note(CASE e.lhs.k = "Variable" ->
                    compile_variable_assignment(cs, e, e.lhs, e.op # "Equal", e.op)
               [] e.lhs.k = "Unary" ->
                    compile_unary_assignment(cs, e.lhs, e.rhs, e.op # "Equal", e.op)
               [] e.lhs.k = "Get" ->
                    compile_get_assignment(cs, e.lhs, e.rhs, e.op # "Equal", e.op)
               [] e.lhs.k = "Sub" ->
                    compile_subscript_assignment(cs, e.lhs, e, e.op # "Equal", e.op)
               [] OTHER -> bail(cs, "compiler: invalid assignment"))

\* LogicalExpression::codegen with the arms of its match exchanged.
LogicalArmsExchanged(cs, e) ==
    LET note(c, jz_idx, rhs_first, rhs_last) ==
            IF ~ok(c) THEN c
            ELSE [c EXCEPT !.logics = Append(@, [op |-> e.op, first |-> Len(cs.code),
                                                 jz |-> jz_idx, rhs_first |-> rhs_first,
                                                 rhs_last |-> rhs_last,
                                                 end |-> Len(c.code)])]
        and_rhs(c, jz_idx) ==
            note(patch_jmp(emit_opcodes(patch_jmp(emit_opcodes(c, << Op("Jmp",
                                                                       Placeholder) >>),
                                                  jz_idx),
                                        << Op0("False") >>),
                           Len(c.code)),
                 jz_idx, jz_idx + 1, Len(c.code) - 1)
        and(c) == and_rhs(Expression_codegen(emit_opcodes(c, << Op("Jz", Placeholder) >>),
                                             e.rhs),
                          Len(c.code))
        or_rhs(c, jz_idx) == note(patch_jmp(c, jz_idx + 3), jz_idx, jz_idx + 4,
                                  Len(c.code) - 1)
        or(c) == or_rhs(Expression_codegen(
                            patch_jmp(emit_opcodes(c, << Op("Jz", Placeholder),
                                                         Op0("False"), Op0("Not"),
                                                         Op("Jmp", Placeholder) >>),
                                      Len(c.code)),
                            e.rhs),
                        Len(c.code))
        lhs(c) == IF e.op = "DoubleAmpersand" THEN or(c)
                  ELSE IF e.op = "DoublePipe" THEN and(c)
                  ELSE bail(c, "panic: unreachable")
    IN  lhs(Expression_codegen(cs, e.lhs))

\* cs.logics records, per logical expression, its operator and the positions of its
\* first instruction, of the Jz after its left operand, of the first and the last
\* instruction of its right operand, and of the first instruction after it.
LogicalExpression_codegen(cs, e) ==
    LET note(c, jz_idx, rhs_first, rhs_last) ==
            IF ~ok(c) THEN c
            ELSE [c EXCEPT !.logics = Append(@, [op |-> e.op, first |-> Len(cs.code),
                                                 jz |-> jz_idx, rhs_first |-> rhs_first,
                                                 rhs_last |-> rhs_last,
                                                 end |-> Len(c.code)])]
        and_rhs(c, jz_idx) ==
            note(patch_jmp(emit_opcodes(patch_jmp(emit_opcodes(c, << Op("Jmp",
                                                                       Placeholder) >>),
                                                  jz_idx),
                                        << Op0("False") >>),
                           Len(c.code)),
                 jz_idx, jz_idx + 1, Len(c.code) - 1)
        and(c) == and_rhs(Expression_codegen(emit_opcodes(c, << Op("Jz", Placeholder) >>),
                                             e.rhs),
                          Len(c.code))
        or_rhs(c, jz_idx) == note(patch_jmp(c, jz_idx + 3), jz_idx, jz_idx + 4,
                                  Len(c.code) - 1)
        or(c) == or_rhs(Expression_codegen(
                            patch_jmp(emit_opcodes(c, << Op("Jz", Placeholder),
                                                         Op0("False"), Op0("Not"),
                                                         Op("Jmp", Placeholder) >>),
                                      Len(c.code)),
                            e.rhs),
                        Len(c.code))
        lhs(c) == IF e.op = "DoubleAmpersand" THEN and(c)
                  ELSE IF e.op = "DoublePipe" THEN or(c)
                  ELSE bail(c, "panic: unreachable")
    IN  lhs(Expression_codegen(cs, e.lhs))

UnaryExpression_codegen(cs, e) ==
    LET ptr(r) == emit_opcodes(r.c, << Op("DeepgetPtr", r.idx) >>)
        arrow(c) == IF e.expr.op = "Arrow" THEN emit_opcodes(c, << Op0("Deref") >>) ELSE c
    IN  CASE e.op = "Minus" -> emit_opcodes(Expression_codegen(cs, e.expr), << Op0("Neg") >>)
          [] e.op = "Bang" -> emit_opcodes(Expression_codegen(cs, e.expr), << Op0("Not") >>)
          [] e.op = "Ampersand" ->
               IF e.expr.k = "Variable"
               THEN ptr(resolve_local(NoteRead(cs, e.expr.value), e.expr.value))
               ELSE IF e.expr.k = "Get"
               THEN emit_opcodes(arrow(Expression_codegen(cs, e.expr.expr)),
                                 << Op("GetattrPtr", e.expr.member) >>)
               ELSE bail(cs, "compiler: expected variable")
          [] e.op = "Star" -> emit_opcodes(Expression_codegen(cs, e.expr), << Op0("Deref") >>)
          [] e.op = "Tilde" ->
               emit_opcodes(Expression_codegen(cs, e.expr), << Op0("BitNot") >>)
          [] OTHER -> bail(cs, "panic: unreachable")

GetExpression_codegen(cs, e) ==
    LET arrow(c) == IF e.op = "Arrow" THEN emit_opcodes(c, << Op0("Deref") >>) ELSE c
    IN  emit_opcodes(arrow(Expression_codegen(cs, e.expr)), << Op("Getattr", e.member) >>)

\* A struct literal compiled without counting its initializers.
StructLiteralUncounted(cs, e) ==
    IF Has(cs.structs, e.name)
    THEN codegen_all(emit_opcodes([cs EXCEPT !.log = Append(@, [e |-> "literal",
                                                                name |-> e.name,
                                                                count |-> Len(e.initializers),
                                                                check |-> "passed"])],
                                  << Op("Struct", e.name) >>),
                     e.initializers, FALSE)
    ELSE bail(cs, StructNotDefined(e.name))

\* cs.log records, per struct literal, its name, the number of its initializers and
\* the check that stopped it; cs.literals records, per compiled literal, where its
\* Struct is, where its code ends, and for every initializer its member name and the
\* position of its Setattr (where the code of its value ends).
StructExpression_codegen(cs, e) ==
    LET note(check) ==
            [cs EXCEPT !.log = Append(@, [e |-> "literal", name |-> e.name,
                                          count |-> Len(e.initializers),
                                          check |-> check])]
        start == emit_opcodes(note("passed"), << Op("Struct", e.name) >>)
        done(c) ==
            IF ~ok(c) THEN c
            ELSE [c EXCEPT !.literals = Append(@,
                     [name |-> e.name, first |-> Len(cs.code), end |-> Len(c.code),
                      inits |-> [i \in 1..Len(e.initializers) |->
                                   [member |-> e.initializers[i].member.value,
                                    at |-> Len(codegen_all(start,
                                                   SubSeq(e.initializers, 1, i),
                                                   FALSE).code) - 1]]])]
    IN  IF Has(cs.structs, e.name)
        THEN IF Len(cs.structs[e.name].members) # Len(e.initializers)
             THEN bail(note("count"),
                       StructHasMembers(e.name, Len(cs.structs[e.name].members)))
             ELSE done(codegen_all(start, e.initializers, FALSE))
        ELSE bail(note("undefined"), StructNotDefined(e.name))

StructInitializerExpression_codegen(cs, e) ==
    IF e.member.k = "Variable"
    THEN emit_opcodes(Expression_codegen(cs, e.value), << Op("Setattr", e.member.value) >>)
    ELSE bail(Expression_codegen(cs, e.value), "panic: unreachable")

\* A vec literal whose elements are emitted in source order.
VecInSourceOrder(cs, e) ==
    LET c == codegen_all(cs, e.elements, FALSE)
    IN  IF ~ok(c) THEN c
        ELSE [emit_opcodes(c, << Op("Vec", Len(e.elements)) >>) EXCEPT
                 !.vecs = Append(@, [first |-> Len(cs.code), op |-> Len(c.code),
                                     ends |-> [i \in 1..Len(e.elements) |->
                                         Len(codegen_all(cs, SubSeq(e.elements, 1, i),
                                                         FALSE).code)]])]

\* cs.vecs records, per vec literal, where its code starts, where its Vec is, and for
\* every element (in source order) where the code of that element ends.
VecExpression_codegen(cs, e) ==
    LET c == codegen_all(cs, Reverse(e.elements), FALSE)
    IN  IF ~ok(c) THEN c
        ELSE [emit_opcodes(c, << Op("Vec", Len(e.elements)) >>) EXCEPT
                 !.vecs = Append(@, [first |-> Len(cs.code), op |-> Len(c.code),
                                     ends |-> [i \in 1..Len(e.elements) |->
                                         Len(codegen_all(cs,
                                                 Reverse(SubSeq(e.elements, i,
                                                                Len(e.elements))),
                                                 FALSE).code)]])]

SubscriptExpression_codegen(cs, e) ==
    emit_opcodes(Expression_codegen(Expression_codegen(cs, e.expr), e.index),
                 << Op0("Subscript") >>)

\* Each statement is noted in stmts as it is reached: where its code begins and what
\* locals, pops, depth and loop_depths held there. bases runs beside pops: the length locals had when
\* each entry of pops was pushed.
Statement_codegen(cs, s) ==
    IF ~ok(cs) THEN cs
    ELSE LET c == [cs EXCEPT !.stmts = Append(@, [k |-> s.k, at |-> Len(cs.code),
                                                   locals |-> cs.locals,
                                                   pops |-> cs.pops,
                                                   bases |-> cs.bases,
                                                   depth |-> cs.depth,
                                                   loop_depths |-> cs.loop_depths])]
         IN
         CASE s.k = "Print" -> PrintStatement_codegen(c, s)
           [] s.k = "Fn" -> FnStatement_codegen(c, s)
           [] s.k = "Return" -> ReturnStatement_codegen(c, s)
           [] s.k = "If" -> IfStatement_codegen(c, s)
           [] s.k = "While" -> WhileStatement_codegen(c, s)
           [] s.k = "For" -> ForStatement_codegen(c, s)
           [] s.k = "Break" -> BreakStatement_codegen(c, s)
           [] s.k = "Continue" -> ContinueStatement_codegen(c, s)
           [] s.k = "Expression" -> ExpressionStatement_codegen(c, s)
           [] s.k = "Block" -> BlockStatement_codegen(c, s)
           [] s.k = "Struct" -> StructStatement_codegen(c, s)
           [] s.k = "Impl" -> ImplStatement_codegen(c, s)
           [] s.k = "Dummy" -> c

Expression_codegen(cs, e) ==
    IF ~ok(cs) THEN cs
    ELSE CASE e.k = "Literal" -> LiteralExpression_codegen(cs, e)
           [] e.k = "Variable" -> VariableExpression_codegen(cs, e)
           [] e.k = "Binary" -> BinaryExpression_codegen(cs, e)
           [] e.k = "Call" -> CallExpression_codegen(cs, e)
           [] e.k = "Assign" -> AssignExpression_codegen(cs, e)
           [] e.k = "Logical" -> LogicalExpression_codegen(cs, e)
           [] e.k = "Unary" -> UnaryExpression_codegen(cs, e)
           [] e.k = "Get" -> GetExpression_codegen(cs, e)
           [] e.k = "Struct" -> StructExpression_codegen(cs, e)
           [] e.k = "StructInitializer" -> StructInitializerExpression_codegen(cs, e)
           [] e.k = "Vec" -> VecExpression_codegen(cs, e)
           [] e.k = "Sub" -> SubscriptExpression_codegen(cs, e)

\* Compiler::compile after the loop over the statements: the trailer.
\* The trailer emitted without looking for main.
TrailerWithoutMain(cs) ==
    emit_opcodes(cs, << Op("Call", 0),
                        Op("Jmp", IF Has(cs.functions, "main")
                                  THEN cs.functions["main"].location ELSE 0),
                        Op("Pop", 1), Op0("Halt") >>)

compile_trailer(cs) ==
    IF Has(cs.functions, "main")
    THEN emit_opcodes(cs, << Op("Call", 0), Op("Jmp", cs.functions["main"].location),
                             Op("Pop", 1), Op0("Halt") >>)
    ELSE bail(cs, "compiler: main fn was not defined")

compile(ast) == compile_trailer(codegen_all(new, ast, TRUE))

(***************************************************************************)
(* Virtual machine (src/src/vm.rs)                                         *)
(***************************************************************************)
STACK_MIN == 1024

\* enum Object.  A Struct or a Vec holds the index of its shared cell in the heap
\* (Rc<RefCell<..>>); a Ptr holds the address it points to.
Number(n) == [t |-> "Number", v |-> n]
\* The number 2^w + v, for a negative v: what a bitwise not of w bits leaves.  The
\* model computes with the numbers it holds as integers only.
Wide(w, v) == [t |-> "Number", v |-> v, above |-> w]
Held(a) == "above" \notin DOMAIN a
Bool(b) == [t |-> "Bool", v |-> b]
String(s) == [t |-> "String", v |-> s]
Struct(r) == [t |-> "Struct", v |-> r]
Ptr(p) == [t |-> "Ptr", v |-> p]
Vec(r) == [t |-> "Vec", v |-> r]
Null == [t |-> "Null", v |-> 0]

\* panic!(msg) raised while a value is computed.
Panic(msg) == [t |-> "Panic", v |-> msg]

\* The address of stack slot i; the address of member `name` of heap cell r, taken
\* when the member table was in its gen-th layout.
SlotPtr(i) == << "slot", i, "", 0 >>
MemberPtr(r, name, gen) == << "member", r, name, gen >>

\* What a read of memory that holds no live object may yield.
Uninit == { Null, Number(0), Bool(FALSE) }

\* StructObject and the Vec behind an Rc, as one kind of heap cell.
StructObject(name) == [name |-> name, members |-> EmptyMap, elems |-> <<>>, gen |-> 0]
VecObject(elems) == [name |-> "", members |-> EmptyMap, elems |-> elems, gen |-> 0]

BytecodePtr(ptr, location) == [ptr |-> ptr, location |-> location]

\* Stack::push without the check of the capacity.
StackPushGrows(data, item) == [data |-> Append(data, item), err |-> ""]

\* Stack::push, Stack::pop on the bare storage.
Stack_push(data, item) ==
    IF Len(data) < STACK_MIN
    THEN [data |-> Append(data, item), err |-> ""]
    ELSE [data |-> data, err |-> "stack overflow"]

\* The machine while a handler runs: m.err is the panic message, "" while none.
push(m, item) ==
    IF m.err # "" THEN m
    ELSE IF item.t = "Panic" THEN [m EXCEPT !.err = item.v]
    ELSE LET r == Stack_push(m.stack, item)
         IN  [m EXCEPT !.stack = r.data, !.err = r.err]

pop(m) ==
    IF m.err # "" THEN m
    ELSE IF m.stack = <<>> THEN [m EXCEPT !.err = "popped an empty stack"]
    ELSE [m EXCEPT !.stack = DropLast(@, 1)]

\* The item the next Stack::pop returns.
top(m) == Last(m.stack)

frame_push(m, frame) ==
    IF m.err # "" THEN m
    ELSE LET r == Stack_push(m.frame_ptrs, frame)
         IN  [m EXCEPT !.frame_ptrs = r.data, !.err = r.err]

\* Bits of naturals.
RECURSIVE BitAnd(_, _), BitOr(_, _), BitXor(_, _), Pow2(_)
BitAnd(a, b) ==
    IF a = 0 \/ b = 0 THEN 0
    ELSE (a % 2) * (b % 2) + 2 * BitAnd(a \div 2, b \div 2)
BitOr(a, b) ==
    IF a = 0 THEN b ELSE IF b = 0 THEN a
    ELSE (IF a % 2 = 1 \/ b % 2 = 1 THEN 1 ELSE 0) + 2 * BitOr(a \div 2, b \div 2)
BitXor(a, b) ==
    IF a = 0 THEN b ELSE IF b = 0 THEN a
    ELSE (IF a % 2 # b % 2 THEN 1 ELSE 0) + 2 * BitXor(a \div 2, b \div 2)
Pow2(n) == IF n = 0 THEN 1 ELSE 2 * Pow2(n - 1)

\* The widest shift whose result the model's integers hold.
MaxShift == 20

\* a.clamp(0, u64::MAX) as u64, for the numbers the model holds.
prepare4bitwise(a) == IF a < 0 THEN 0 ELSE a

\* A result the model's integers do not hold (a quotient that is no integer, inf, NaN,
\* a word above 2^31): the model stops there.
Unmodelled == Panic("model: number outside the integers of the model")

Object_add(a, b) ==
    IF a.t = "Number" /\ b.t = "Number" THEN Number(a.v + b.v)
    ELSE Panic("vm: only numbers can be +")
\* A subtraction that adds.
SubtractionAdds(a, b) ==
    IF a.t = "Number" /\ b.t = "Number" THEN Number(a.v + b.v)
    ELSE Panic("vm: only numbers can be -")
Object_sub(a, b) ==
    IF a.t = "Number" /\ b.t = "Number" THEN Number(a.v - b.v)
    ELSE Panic("vm: only numbers can be -")
Object_mul(a, b) ==
    IF a.t = "Number" /\ b.t = "Number" THEN Number(a.v * b.v)
    ELSE Panic("vm: only numbers can be *")
Object_div(a, b) ==
    IF a.t = "Number" /\ b.t = "Number"
    THEN IF b.v > 0 /\ a.v >= 0 /\ a.v % b.v = 0 THEN Number(a.v \div b.v)
         ELSE IF b.v > 0 /\ a.v < 0 /\ (0 - a.v) % b.v = 0
              THEN Number(0 - ((0 - a.v) \div b.v))
         ELSE IF b.v < 0 /\ a.v >= 0 /\ a.v % (0 - b.v) = 0
              THEN Number(0 - (a.v \div (0 - b.v)))
         ELSE IF b.v < 0 /\ a.v < 0 /\ (0 - a.v) % (0 - b.v) = 0
              THEN Number((0 - a.v) \div (0 - b.v))
         ELSE Unmodelled
    ELSE Panic("vm: only numbers can be /")
Object_rem(a, b) ==
    IF a.t = "Number" /\ b.t = "Number"
    THEN IF b.v = 0 THEN Unmodelled
         ELSE LET d == IF b.v < 0 THEN 0 - b.v ELSE b.v
              IN  IF a.v >= 0 THEN Number(a.v % d) ELSE Number(0 - ((0 - a.v) % d))
    ELSE Panic("vm: only numbers can be %")
Object_bitand(a, b) ==
    IF a.t = "Number" /\ b.t = "Number"
    THEN Number(BitAnd(prepare4bitwise(a.v), prepare4bitwise(b.v)))
    ELSE Panic("vm: only numbers can be %")
Object_bitor(a, b) ==
    IF a.t = "Number" /\ b.t = "Number"
    THEN Number(BitOr(prepare4bitwise(a.v), prepare4bitwise(b.v)))
    ELSE Panic("vm: only numbers can be %")
Object_bitxor(a, b) ==
    IF a.t = "Number" /\ b.t = "Number"
    THEN Number(BitXor(prepare4bitwise(a.v), prepare4bitwise(b.v)))
    ELSE Panic("vm: only numbers can be %")
\* `a << b` and `a >> b` on u64 with b >= 64 overflow: a build with overflow checks
\* panics, one without shifts by b % 64.
Builds == {"checked", "wrapping"}
Object_shl(build, a, b) ==
    IF a.t = "Number" /\ b.t = "Number"
    THEN LET x == prepare4bitwise(a.v)
             y == prepare4bitwise(b.v)
             by == IF y >= 64 THEN y % 64 ELSE y
         IN  IF y >= 64 /\ build = "checked"
             THEN Panic("attempt to shift left with overflow")
             ELSE IF by <= MaxShift /\ x < 1024 THEN Number(x * Pow2(by))
             ELSE Unmodelled
    ELSE Panic("vm: only numbers can be %")
Object_shr(build, a, b) ==
    IF a.t = "Number" /\ b.t = "Number"
    THEN LET x == prepare4bitwise(a.v)
             y == prepare4bitwise(b.v)
             by == IF y >= 64 THEN y % 64 ELSE y
         IN  IF y >= 64 /\ build = "checked"
             THEN Panic("attempt to shift right with overflow")
             ELSE IF by <= MaxShift THEN Number(x \div Pow2(by))
             ELSE Unmodelled
    ELSE Panic("vm: only numbers can be %")
\* !((n as u64 % 2^32) as u32) is 2^32 - 1 - r.
Object_not(a) ==
    CASE a.t = "Number" -> Wide(32, 0 - (prepare4bitwise(a.v) + 1))
      [] a.t = "Bool" -> Bool(~a.v)
      [] OTHER -> Panic("vm: only bools can be !")
Object_neg(a) ==
    IF a.t = "Number" THEN Number(0 - a.v) ELSE Panic("vm: only numbers can be -")

\* #[derive(PartialEq)] on Object: the same variant and equal contents; an Rc compares
\* what it points to.
RECURSIVE Object_eq(_, _, _)
Object_eq(heap, a, b) ==
    IF a.t # b.t THEN FALSE
    ELSE IF a.t \in {"Struct", "Vec"}
    THEN LET x == heap[a.v]
             y == heap[b.v]
         IN  /\ x.name = y.name
             /\ DOMAIN x.members = DOMAIN y.members
             /\ \A key \in DOMAIN x.members : Object_eq(heap, x.members[key], y.members[key])
             /\ Len(x.elems) = Len(y.elems)
             /\ \A i \in 1..Len(x.elems) : Object_eq(heap, x.elems[i], y.elems[i])
    ELSE a = b

\* PartialOrd on Object: only two numbers are ordered.
Object_lt(a, b) == a.t = "Number" /\ b.t = "Number" /\ a.v < b.v
Object_gt(a, b) == a.t = "Number" /\ b.t = "Number" /\ a.v > b.v

\* The heap cells some Rc still reaches: from the stack, through members and elements.
ObjRefs(objs) == { objs[i].v : i \in { j \in DOMAIN objs : objs[j].t \in {"Struct", "Vec"} } }
CellRefs(cell) ==
    { cell.members[key].v :
        key \in { n \in DOMAIN cell.members : cell.members[n].t \in {"Struct", "Vec"} } }
    \cup ObjRefs(cell.elems)
RECURSIVE Reach(_, _)
Reach(heap, S) ==
    LET S2 == S \cup UNION { CellRefs(heap[r]) : r \in S }
    IN  IF S2 = S THEN S ELSE Reach(heap, S2)
Live(m) == Reach(m.heap, ObjRefs(m.stack))

\* What `*ptr` may read: the object at the address while it is alive there.
deref_read(m, p) ==
    IF p[1] = "slot"
    THEN IF p[2] < Len(m.stack) THEN { m.stack[p[2] + 1] } ELSE Uninit
    ELSE IF p[2] \in Live(m) /\ p[3] \in DOMAIN m.heap[p[2]].members
    THEN IF m.heap[p[2]].gen = p[4] THEN { m.heap[p[2]].members[p[3]] }
         ELSE Uninit \cup { m.heap[p[2]].members[p[3]] }
    ELSE Uninit

\* `*ptr = item`.  A store through a dangling address changes no live object
\* ("lost"), reaches the member where it now lies ("lands"), or ends the run ("crash").
DanglingOutcomes == { "lost", "lands", "crash" }
deref_write(m, p, item, outcome) ==
    LET slot_ok == p[1] = "slot" /\ p[2] < Len(m.stack)
        member_there == /\ p[1] = "member"
                        /\ p[2] \in Live(m)
                        /\ p[3] \in DOMAIN m.heap[p[2]].members
        member_ok == member_there /\ m.heap[p[2]].gen = p[4]
    IN  IF slot_ok THEN [m EXCEPT !.stack[p[2] + 1] = item]
        ELSE IF member_ok \/ (member_there /\ outcome = "lands")
        THEN [m EXCEPT !.heap[p[2]].members[p[3]] = item]
        ELSE IF outcome = "crash"
        THEN [m EXCEPT !.err = "ub: store through a dangling pointer"]
        ELSE m

(***************************************************************************)
(* State                                                                   *)
(***************************************************************************)
VARIABLES
    ast,          \* the parsed program handed to Compiler::compile
    compiler,     \* the Compiler (its bytecode is compiler.code and compiler.sp)
    stack,        \* VM.stack
    frame_ptrs,   \* VM.frame_ptrs
    ip,           \* VM.ip: the index of the element the loop dispatches next
    blueprints,   \* VM.blueprints
    heap,         \* the cells behind the Rc of every Struct and Vec
    out,          \* what Print wrote
    status,       \* "compiling", "running", "halted", or the message of the error
    hist          \* history: what the run did, read by no handler

vars == << ast, compiler, stack, frame_ptrs, ip, blueprints, heap, out, status, hist >>

code == compiler.code

\* The machine as a handler finds it.
cur ==
    [stack |-> stack, frame_ptrs |-> frame_ptrs, ip |-> ip, blueprints |-> blueprints,
     heap |-> heap, out |-> out, err |-> ""]

\* exec: the opcode at ip, and the dispatch on it.
Fetch(opname) ==
    /\ status = "running"
    /\ ip \in 0..(Len(code) - 1)
    /\ code[ip + 1].op = opname

\* History.  calls: for every frame of frame_ptrs, where it was pushed and its serial
\* number; entry: the stack length at which each open block of each frame was
\* entered; retval: the value on top of the stack when the last return sequence
\* began; born: for a stack address, the frame and slot index of the `&x` that last
\* produced it; op: the opcode the last turn of the loop ran; popped: the entry of
\* calls that the last Ret took off; from: the position of the instruction the last
\* turn ran; loop: for every loop statement a frame is inside of, the stack length
\* when the statement was entered (len) and when its condition was first evaluated
\* (cond_len), whether a continue ran since the condition was last evaluated (cont),
\* the part of the loop control is in (phase) and how often the initializer of a for
\* was entered (inits); logic: for every logical expression a frame is evaluating, the
\* stack length when it started (len), the value of its left operand (a), whether
\* code of its right operand ran (ran) and the value that operand left (b); compound:
\* for every compound assignment a frame is executing, the stack length when it started
\* (len), the value its target held then (a) and the value on top of the stack when
\* its operator ran (b).
HistInit == [calls |-> <<>>, serial |-> 0, entry |-> EmptyMap, retval |-> Null,
             born |-> EmptyMap, op |-> "", popped |-> [site |-> 0, serial |-> 0],
             from |-> 0, loop |-> EmptyMap, logic |-> EmptyMap, compound |-> EmptyMap,
             vec |-> EmptyMap, literal |-> EmptyMap, assign |-> EmptyMap,
             args |-> EmptyMap]

InLoop(l, i) == compiler.loops[l].first <= i /\ i <= compiler.loops[l].last

\* The continue statements of loop l, by the position of their Jmp.
ContinuesOf(l) ==
    { compiler.jumps[j].jmp :
        j \in { k \in 1..Len(compiler.jumps) :
                  /\ compiler.jumps[k].kind = "continue"
                  /\ compiler.jumps[k].loop = compiler.loops[l].first } }

\* hist.loop after the turn that ran the instruction at `at` in a frame of depth d,
\* with nip the instruction to run next and len the stack length.
NextLoopHist(d, at, nip, len) ==
    LET kept == { key \in DOMAIN hist.loop :
                    \/ key[1] < d
                    \/ key[1] = d /\ InLoop(key[2], nip) }
        opened == { << d, l >> : l \in { c \in 1..Len(compiler.loops) :
                                           compiler.loops[c].first = nip } }
        step(key) ==
            LET L == compiler.loops[key[2]]
                old == IF key \in kept THEN hist.loop[key]
                       ELSE [len |-> len, cond_len |-> -1, cont |-> FALSE,
                             phase |-> "init", inits |-> 0]
            IN  IF key[1] # d THEN old
                ELSE [len |-> old.len,
                      cond_len |-> IF nip = L.cond /\ old.cond_len = -1 THEN len
                                   ELSE old.cond_len,
                      cont |-> IF at \in ContinuesOf(key[2]) THEN TRUE
                               ELSE IF at = L.cond THEN FALSE
                               ELSE old.cont,
                      phase |-> IF nip = L.cond THEN "cond"
                                ELSE IF nip = L.body THEN "body"
                                ELSE IF nip = L.next THEN "adv"
                                ELSE IF nip = L.first THEN "init"
                                ELSE old.phase,
                      inits |-> IF nip = L.first /\ L.kind = "for" THEN old.inits + 1
                                ELSE old.inits]
    IN  [key \in kept \cup opened |-> step(key)]

InBlock(b, i) == compiler.blocks[b].start <= i /\ i <= compiler.blocks[b].pop

\* The object a target names in a frame whose slots start at base: Null when there
\* is none.
TargetValue(t, stk, hp, base) ==
    LET at(i) == IF i + 1 \in DOMAIN stk THEN stk[i + 1] ELSE Null
        local == at(base + t.idx)
        pointee(p) ==
            IF p.t # "Ptr" THEN Null
            ELSE IF p.v[1] = "slot" THEN at(p.v[2])
            ELSE IF p.v[2] \in DOMAIN hp /\ Has(hp[p.v[2]].members, p.v[3])
            THEN hp[p.v[2]].members[p.v[3]] ELSE Null
        member(o) ==
            IF o.t = "Struct" /\ o.v \in DOMAIN hp /\ Has(hp[o.v].members, t.member)
            THEN hp[o.v].members[t.member] ELSE Null
    IN  CASE t.kind = "var" -> local
          [] t.kind = "deref" -> pointee(local)
          [] t.kind = "member" -> member(IF t.arrow THEN pointee(local) ELSE local)
          [] t.kind = "elem" ->
               IF local.t = "Vec" /\ local.v \in DOMAIN hp
                  /\ t.i + 1 \in DOMAIN hp[local.v].elems
               THEN hp[local.v].elems[t.i + 1] ELSE Null
          [] OTHER -> Null

InCompound(c, i) == compiler.compounds[c].first <= i /\ i < compiler.compounds[c].end

\* hist.compound after the turn that ran the instruction at `at` in a frame of depth
\* d, with nip the instruction to run next and m the machine the turn left.
NextCompoundHist(d, at, nip, m) ==
    LET kept == { key \in DOMAIN hist.compound :
                    \/ key[1] < d
                    \/ key[1] = d /\ InCompound(key[2], nip) }
        opened == { << d, c >> : c \in { k \in 1..Len(compiler.compounds) :
                                           compiler.compounds[k].first = nip } }
        step(key) ==
            LET C == compiler.compounds[key[2]]
                old == IF key \in kept THEN hist.compound[key]
                       ELSE [len |-> Len(m.stack),
                             a |-> IF m.frame_ptrs = <<>> THEN Null
                                   ELSE TargetValue(C.target, m.stack, m.heap,
                                                    Last(m.frame_ptrs).location),
                             b |-> Null]
            IN  IF key[1] # d THEN old
                ELSE [old EXCEPT !.b = IF nip = C.opidx /\ m.stack # <<>>
                                       THEN Last(m.stack) ELSE old.b]
    IN  [key \in kept \cup opened |-> step(key)]

InLogic(g, i) == compiler.logics[g].first <= i /\ i < compiler.logics[g].end

\* hist.logic after the turn that ran the instruction at `at` in a frame of depth d,
\* with nip the instruction to run next and after the stack it left.
NextLogicHist(d, at, nip, after) ==
    LET kept == { key \in DOMAIN hist.logic :
                    \/ key[1] < d
                    \/ key[1] = d /\ InLogic(key[2], nip) }
        opened == { << d, g >> : g \in { c \in 1..Len(compiler.logics) :
                                           compiler.logics[c].first = nip } }
        step(key) ==
            LET G == compiler.logics[key[2]]
                old == IF key \in kept THEN hist.logic[key]
                       ELSE [len |-> Len(after), a |-> Null, ran |-> FALSE, b |-> Null]
            IN  IF key[1] # d THEN old
                ELSE [len |-> old.len,
                      a |-> IF at = G.jz /\ key \in kept /\ stack # <<>> THEN Last(stack)
                            ELSE old.a,
                      ran |-> old.ran \/ (G.rhs_first <= nip /\ nip <= G.rhs_last),
                      b |-> IF nip = G.rhs_last + 1 /\ old.ran /\ after # <<>>
                            THEN Last(after) ELSE old.b]
    IN  [key \in kept \cup opened |-> step(key)]

InVec(g, i) == compiler.vecs[g].first <= i /\ i <= compiler.vecs[g].op

\* hist.vec: for every vec literal being evaluated in a frame of depth d, the stack
\* length when it started and the value each element's code left, by source index.
NextVecHist(d, nip, after) ==
    LET kept == { key \in DOMAIN hist.vec :
                    \/ key[1] < d
                    \/ key[1] = d /\ InVec(key[2], nip) }
        opened == { << d, g >> : g \in { c \in 1..Len(compiler.vecs) :
                                           compiler.vecs[c].first = nip } }
        step(key) ==
            LET G == compiler.vecs[key[2]]
                old == IF key \in kept THEN hist.vec[key]
                       ELSE [len |-> Len(after), vals |-> EmptyMap]
                done == { i \in 1..Len(G.ends) : G.ends[i] = nip }
            IN  IF key[1] # d \/ after = <<>> THEN old
                ELSE [len |-> old.len,
                      vals |-> [i \in DOMAIN old.vals \cup done |->
                                  IF i \in done THEN Last(after) ELSE old.vals[i]]]
    IN  [key \in kept \cup opened |-> step(key)]

InLiteral(g, i) == compiler.literals[g].first <= i /\ i < compiler.literals[g].end

\* hist.literal: for every struct literal being evaluated in a frame of depth d, the
\* stack length when it started and the value each initializer's code left.
NextLiteralHist(d, nip, after) ==
    LET kept == { key \in DOMAIN hist.literal :
                    \/ key[1] < d
                    \/ key[1] = d /\ InLiteral(key[2], nip) }
        opened == { << d, g >> : g \in { c \in 1..Len(compiler.literals) :
                                           compiler.literals[c].first = nip } }
        step(key) ==
            LET G == compiler.literals[key[2]]
                old == IF key \in kept THEN hist.literal[key]
                       ELSE [len |-> Len(after), vals |-> EmptyMap]
                done == { i \in 1..Len(G.inits) : G.inits[i].at = nip }
            IN  IF key[1] # d \/ after = <<>> THEN old
                ELSE [len |-> old.len,
                      vals |-> [i \in DOMAIN old.vals \cup done |->
                                  IF i \in done THEN Last(after) ELSE old.vals[i]]]
    IN  [key \in kept \cup opened |-> step(key)]

\* hist.assign: the stack length met at the first element of each plain assignment
\* that a frame is inside of.
InAssign(a, i) == compiler.assigns[a].first <= i /\ i < compiler.assigns[a].end

NextAssignHist(d, nip, len) ==
    LET kept == { key \in DOMAIN hist.assign :
                    \/ key[1] < d
                    \/ key[1] = d /\ InAssign(key[2], nip) }
        opened == { << d, a >> : a \in { k \in 1..Len(compiler.assigns) :
                                           compiler.assigns[k].first = nip } }
    IN  [key \in kept \cup opened |->
            IF key \in kept THEN hist.assign[key] ELSE len]

\* hist.args: per direct call a frame is inside of, the stack length met at the first
\* element of its arguments, the value each argument left on top of the stack, and
\* the parameters the callee has stored to since.
InCall(g, i) == compiler.callsites[g].first <= i /\ i <= compiler.callsites[g].op

\* The direct calls whose callee is the frame on top of frames.
CallsOf(frames) ==
    { key \in DOMAIN hist.args :
        /\ frames # <<>>
        /\ key[1] = Len(frames) - 1
        /\ compiler.callsites[key[2]].op + 1 = Last(frames).ptr }

NextArgsHist(d, nip, after) ==
    LET kept == { key \in DOMAIN hist.args :
                    \/ key[1] < d
                    \/ key[1] = d /\ InCall(key[2], nip) }
        opened == { << d, g >> : g \in { c \in 1..Len(compiler.callsites) :
                                           compiler.callsites[c].first = nip } }
        step(key) ==
            LET G == compiler.callsites[key[2]]
                old == IF key \in kept THEN hist.args[key]
                       ELSE [len |-> Len(after), vals |-> EmptyMap, stored |-> {}]
                done == { i \in 1..Len(G.ends) : G.ends[i] = nip }
            IN  IF key[1] = d /\ after # <<>>
                THEN [old EXCEPT !.vals = [i \in DOMAIN old.vals \cup done |->
                                             IF i \in done THEN Last(after)
                                             ELSE old.vals[i]]]
                ELSE IF key \in CallsOf(frame_ptrs) /\ code[ip + 1].op = "Deepset"
                THEN [old EXCEPT !.stored = @ \cup { code[ip + 1].x }]
                ELSE old
    IN  [key \in kept \cup opened |-> step(key)]

NextHist(m) ==
    LET d == Len(m.frame_ptrs)
        nip == m.ip + 1
        pushed == d > Len(frame_ptrs)
        calls == IF pushed
                 THEN Append(hist.calls, [site |-> ip, serial |-> hist.serial + 1])
                 ELSE SubSeq(hist.calls, 1, d)
        kept == { key \in DOMAIN hist.entry :
                    \/ key[1] < d
                    \/ key[1] = d /\ InBlock(key[2], nip) }
        opened == { << d, b >> : b \in { c \in 1..Len(compiler.blocks) :
                                           compiler.blocks[c].start = nip } }
        idx == code[ip + 1].x
    IN  [calls |-> calls,
         serial |-> IF pushed THEN hist.serial + 1 ELSE hist.serial,
         entry |-> [key \in kept \cup opened |->
                      IF key \in kept THEN hist.entry[key] ELSE Len(m.stack)],
         retval |-> IF /\ \E r \in 1..Len(compiler.returns) : compiler.returns[r].first = nip
                       /\ m.stack # <<>>
                    THEN Last(m.stack) ELSE hist.retval,
         born |-> IF code[ip + 1].op = "DeepgetPtr"
                  THEN Put(hist.born, Last(frame_ptrs).location + idx,
                           [serial |-> Last(hist.calls).serial, idx |-> idx])
                  ELSE hist.born,
         op |-> code[ip + 1].op,
         popped |-> IF code[ip + 1].op = "Ret" /\ hist.calls # <<>>
                    THEN Last(hist.calls) ELSE hist.popped,
         from |-> ip,
         loop |-> NextLoopHist(d, ip, nip, Len(m.stack)),
         logic |-> NextLogicHist(d, ip, nip, m.stack),
         compound |-> NextCompoundHist(d, ip, nip, m),
         vec |-> NextVecHist(d, nip, m.stack),
         literal |-> NextLiteralHist(d, nip, m.stack),
         assign |-> NextAssignHist(d, nip, Len(m.stack)),
         args |-> NextArgsHist(d, nip, m.stack)]

\* The end of a handler and of the loop's turn: `self.ip = self.ip.add(1)`, or the
\* panic that ended the run.
Commit(m) ==
    /\ stack' = m.stack
    /\ frame_ptrs' = m.frame_ptrs
    /\ blueprints' = m.blueprints
    /\ heap' = m.heap
    /\ out' = m.out
    /\ ip' = IF m.err = "" THEN m.ip + 1 ELSE ip
    /\ status' = IF m.err = "" THEN "running" ELSE m.err
    /\ hist' = IF m.err = "" THEN NextHist(m) ELSE hist
    /\ UNCHANGED << ast, compiler >>

Exec(opname, m) == Fetch(opname) /\ Commit(m)

(***************************************************************************)
(* Handlers                                                                *)
(***************************************************************************)
\* read_f64 / read_u32 of the immediate held inside the element at ip.
operand(m) == code[m.ip + 1].x

\* read_u32 of a word emit_u32 wrote: the four Raw elements after ip; ip moves to the
\* last of them.
read_u32(m) ==
    [m |-> [m EXCEPT !.ip = @ + 4],
     value |-> code[m.ip + 2].x * 16777216 + code[m.ip + 3].x * 65536
               + code[m.ip + 4].x * 256 + code[m.ip + 5].x]

\* k calls of read_u32 in a row.
RECURSIVE read_u32s(_, _)
read_u32s(m, k) ==
    IF k = 0 THEN [m |-> m, values |-> <<>>]
    ELSE LET r == read_u32(m)
             rest == read_u32s(r.m, k - 1)
         IN  [m |-> rest.m, values |-> << r.value >> \o rest.values]

adjust_idx(m, index) == Last(m.frame_ptrs).location + index

\* `let b = pop(); let a = pop(); push(a op b)`
binop_arithmetic(m, op(_, _)) ==
    LET m1 == pop(m)
        m2 == pop(m1)
    IN  IF m2.err # "" THEN m2
        ELSE IF ~Held(top(m1)) \/ ~Held(top(m)) THEN push(m2, Unmodelled)
        ELSE push(m2, op(top(m1), top(m)))

binop_relational(m, op(_, _)) ==
    LET m1 == pop(m)
        m2 == pop(m1)
    IN  IF m2.err # "" THEN m2
        ELSE IF top(m1).t # top(m).t
        THEN [m2 EXCEPT !.err = "vm: only numbers can be: <, >, <=, >="]
        ELSE IF ~Held(top(m1)) \/ ~Held(top(m)) THEN push(m2, Unmodelled)
        ELSE push(m2, Bool(op(top(m1), top(m))))

unop(m, op(_)) ==
    LET m1 == pop(m)
    IN  IF m1.err # "" THEN m1
        ELSE IF ~Held(top(m)) THEN push(m1, Unmodelled)
        ELSE push(m1, op(top(m)))

handle_op_const == Exec("Const", push(cur, Number(operand(cur))))

handle_op_str == Exec("Str", push(cur, String(operand(cur))))

handle_op_strcat ==
    Exec("Strcat",
         LET m1 == pop(cur)
             m2 == pop(m1)
         IN  IF m2.err # "" THEN m2
             ELSE IF top(m1).t = "String" /\ top(cur).t = "String"
             THEN push(m2, String(top(m1).v \o top(cur).v))
             ELSE [m2 EXCEPT !.err = "vm: only strings can be concatenated"])

handle_op_print ==
    Exec("Print",
         LET m1 == pop(cur)
         IN  IF m1.err # "" THEN m1 ELSE [m1 EXCEPT !.out = Append(@, top(cur))])

handle_op_add == Exec("Add", binop_arithmetic(cur, Object_add))
handle_op_sub == Exec("Sub", binop_arithmetic(cur, Object_sub))
handle_op_mul == Exec("Mul", binop_arithmetic(cur, Object_mul))
handle_op_div == Exec("Div", binop_arithmetic(cur, Object_div))
handle_op_mod == Exec("Mod", binop_arithmetic(cur, Object_rem))
handle_op_bitand == Exec("BitAnd", binop_arithmetic(cur, Object_bitand))
handle_op_bitor == Exec("BitOr", binop_arithmetic(cur, Object_bitor))
handle_op_bitxor == Exec("BitXor", binop_arithmetic(cur, Object_bitxor))
handle_op_bitshl ==
    \E build \in Builds :
        LET shl(a, b) == Object_shl(build, a, b)
        IN  Exec("BitShl", binop_arithmetic(cur, shl))
handle_op_bitshr ==
    \E build \in Builds :
        LET shr(a, b) == Object_shr(build, a, b)
        IN  Exec("BitShr", binop_arithmetic(cur, shr))
handle_op_bitnot == Exec("BitNot", unop(cur, Object_not))
handle_op_false == Exec("False", push(cur, Bool(FALSE)))
handle_op_not == Exec("Not", unop(cur, Object_not))
handle_op_neg == Exec("Neg", unop(cur, Object_neg))
handle_op_null == Exec("Null", push(cur, Null))

handle_op_eq ==
    Exec("Eq",
         LET m1 == pop(cur)
             m2 == pop(m1)
         IN  IF m2.err # "" THEN m2
             ELSE push(m2, Bool(Object_eq(heap, top(m1), top(cur)))))

handle_op_lt == Exec("Lt", binop_relational(cur, Object_lt))
handle_op_gt == Exec("Gt", binop_relational(cur, Object_gt))

\* handle_op_jmp that does not jump while no frame is open.
JmpIgnoredAtTopLevel ==
    Exec("Jmp", IF frame_ptrs = <<>> THEN cur ELSE [cur EXCEPT !.ip = operand(cur)])

handle_op_jmp == Exec("Jmp", [cur EXCEPT !.ip = operand(cur)])

\* handle_op_jz that jumps on everything but true.
JzJumpsUnlessTrue ==
    Exec("Jz",
         LET m1 == pop(cur)
         IN  IF m1.err # "" THEN m1
             ELSE IF top(cur) # Bool(TRUE) THEN [m1 EXCEPT !.ip = operand(cur)]
             ELSE m1)

handle_op_jz ==
    Exec("Jz",
         LET m1 == pop(cur)
         IN  IF m1.err # "" THEN m1
             ELSE IF top(cur) = Bool(FALSE) THEN [m1 EXCEPT !.ip = operand(cur)]
             ELSE m1)

\* handle_op_call with the return address on the Call itself.
CallReturnsBeforeJmp ==
    Exec("Call",
         IF Len(stack) < operand(cur)
         THEN [cur EXCEPT !.err = "attempt to subtract with overflow"]
         ELSE frame_push(cur, BytecodePtr(ip, Len(stack) - operand(cur))))

\* handle_op_call with the frame based at the top of the stack.
CallBaseAtTop ==
    Exec("Call",
         IF Len(stack) < operand(cur)
         THEN [cur EXCEPT !.err = "attempt to subtract with overflow"]
         ELSE frame_push(cur, BytecodePtr(ip + 1, Len(stack))))

\* ip.add(5) is the end of the element after Call: the Jmp that enters the callee.
handle_op_call ==
    Exec("Call",
         IF Len(stack) < operand(cur)
         THEN [cur EXCEPT !.err = "attempt to subtract with overflow"]
         ELSE frame_push(cur, BytecodePtr(ip + 1, Len(stack) - operand(cur))))

\* find_method that looks the name up in every blueprint, whatever the receiver is.
FindMethodAnyStruct(m, object, method_name) ==
    IF object.t # "Struct" THEN Panic("vm: tried to call a method on a non-struct")
    ELSE IF \E bp \in DOMAIN m.blueprints : Has(m.blueprints[bp].methods, method_name)
    THEN m.blueprints[CHOOSE bp \in DOMAIN m.blueprints :
                         Has(m.blueprints[bp].methods, method_name)].methods[method_name]
    ELSE Panic("vm: struct has no method")

\* find_method for a receiver that need not be a struct: anything has method 0.
FindMethodOfAnything(m, object, method_name) ==
    IF object.t = "Struct" /\ Has(m.blueprints, m.heap[object.v].name)
       /\ Has(m.blueprints[m.heap[object.v].name].methods, method_name)
    THEN m.blueprints[m.heap[object.v].name].methods[method_name]
    ELSE Function(method_name, 0, 1, 0)

\* The method the receiver's blueprint holds under the name, or the panic.
find_method(m, object, method_name) ==
    IF object.t # "Struct" THEN Panic("vm: tried to call a method on a non-struct")
    ELSE LET object_type == m.heap[object.v].name
         IN  IF ~Has(m.blueprints, object_type)
             THEN Panic("called Option::unwrap() on a None value")
             ELSE IF ~Has(m.blueprints[object_type].methods, method_name)
             THEN Panic("vm: struct has no method")
             ELSE m.blueprints[object_type].methods[method_name]

handle_op_call_method ==
    /\ Fetch("CallMethod")
    /\ LET r1 == read_u32(cur)
           r2 == read_u32(r1.m)
           m2 == r2.m
           method_name_idx == r1.value
           argcount == r2.value
       IN  IF stack = <<>> THEN Commit([m2 EXCEPT !.err = "peeked an empty stack"])
           ELSE \E object \in IF argcount < Len(stack)
                              THEN { stack[Len(stack) - argcount] } ELSE Uninit :
                  LET method == IF method_name_idx < Len(compiler.sp)
                                THEN find_method(m2, object, compiler.sp[method_name_idx + 1])
                                ELSE Panic("index out of bounds")
                  IN  IF "t" \in DOMAIN method THEN Commit([m2 EXCEPT !.err = method.v])
                      ELSE IF argcount # method.paramcount - 1
                      THEN Commit([m2 EXCEPT !.err = "vm: method expects N arguments"])
                      ELSE Commit([frame_push(m2, BytecodePtr(m2.ip,
                                                Len(stack) - method.paramcount))
                                   EXCEPT !.ip = method.location])

handle_op_ret ==
    Exec("Ret",
         IF frame_ptrs = <<>> THEN [cur EXCEPT !.err = "popped an empty stack"]
         ELSE [cur EXCEPT !.frame_ptrs = DropLast(@, 1), !.ip = Last(frame_ptrs).ptr])

\* A Deepget whose clone of a struct or a vec is a new heap cell with the same contents.
DeepgetCopies ==
    /\ Fetch("Deepget")
    /\ IF frame_ptrs = <<>> THEN Commit([cur EXCEPT !.err = "no elements on the stack"])
       ELSE \E obj \in IF adjust_idx(cur, operand(cur)) < Len(stack)
                       THEN { stack[adjust_idx(cur, operand(cur)) + 1] } ELSE Uninit :
              IF obj.t \in {"Struct", "Vec"}
              THEN Commit(push([cur EXCEPT !.heap = Append(@, heap[obj.v])],
                               [obj EXCEPT !.v = Len(heap) + 1]))
              ELSE Commit(push(cur, obj))

\* get_unchecked_mut(..).clone(): past the live part of the stack the read is of
\* memory that holds no object.
handle_op_deepget ==
    /\ Fetch("Deepget")
    /\ IF frame_ptrs = <<>> THEN Commit([cur EXCEPT !.err = "no elements on the stack"])
       ELSE \E obj \in IF adjust_idx(cur, operand(cur)) < Len(stack)
                       THEN { stack[adjust_idx(cur, operand(cur)) + 1] } ELSE Uninit :
              Commit(push(cur, obj))

handle_op_deepgetptr ==
    Exec("DeepgetPtr",
         IF frame_ptrs = <<>> THEN [cur EXCEPT !.err = "no elements on the stack"]
         ELSE IF adjust_idx(cur, operand(cur)) >= Len(stack)
         THEN [cur EXCEPT !.err = "index out of bounds"]
         ELSE push(cur, Ptr(SlotPtr(adjust_idx(cur, operand(cur))))))

\* Vec::swap_remove(i): the last element takes the place of element i.
swap_remove(data, i) ==
    IF i = Len(data) - 1 THEN DropLast(data, 1)
    ELSE [DropLast(data, 1) EXCEPT ![i + 1] = Last(data)]

\* handle_op_deepset that writes the slot and leaves the top of the stack in place.
DeepsetKeepsTop ==
    Exec("Deepset",
         IF frame_ptrs = <<>> THEN [cur EXCEPT !.err = "no elements on the stack"]
         ELSE IF adjust_idx(cur, operand(cur)) >= Len(stack)
         THEN [cur EXCEPT !.err = "swap_remove index out of bounds"]
         ELSE [cur EXCEPT !.stack[adjust_idx(cur, operand(cur)) + 1] = Last(stack)])

handle_op_deepset ==
    Exec("Deepset",
         IF frame_ptrs = <<>> THEN [cur EXCEPT !.err = "no elements on the stack"]
         ELSE IF adjust_idx(cur, operand(cur)) >= Len(stack)
         THEN [cur EXCEPT !.err = "swap_remove index out of bounds"]
         ELSE [cur EXCEPT !.stack = swap_remove(stack, adjust_idx(cur, operand(cur)))])

handle_op_deref ==
    /\ Fetch("Deref")
    /\ LET m1 == pop(cur)
       IN  IF m1.err # "" THEN Commit(m1)
           ELSE IF top(cur).t # "Ptr"
           THEN Commit([m1 EXCEPT !.err = "vm: tried to deref a non-ptr"])
           ELSE \E obj \in deref_read(m1, top(cur).v) : Commit(push(m1, obj))

handle_op_derefset ==
    /\ Fetch("DerefSet")
    /\ LET m1 == pop(cur)
           m2 == pop(m1)
       IN  IF m2.err # "" THEN Commit(m2)
           ELSE IF top(m1).t # "Ptr"
           THEN Commit([m2 EXCEPT !.err = "vm: tried to deref a non-ptr"])
           ELSE \E outcome \in DanglingOutcomes :
                  Commit(deref_write(m2, top(m1).v, top(cur), outcome))

\* The message of handle_op_getattr and handle_op_getattrptr.
NoMember(name, attr) == "vm: struct '" \o name \o "' has no member '" \o attr \o "'"

handle_op_getattr ==
    Exec("Getattr",
         LET m1 == pop(cur)
             attr == operand(cur)
         IN  IF m1.err # "" \/ top(cur).t # "Struct" THEN m1
             ELSE IF Has(heap[top(cur).v].members, attr)
             THEN push(m1, heap[top(cur).v].members[attr])
             ELSE [m1 EXCEPT !.err = NoMember(heap[top(cur).v].name, attr)])

handle_op_getattrptr ==
    Exec("GetattrPtr",
         LET m1 == pop(cur)
             attr == operand(cur)
         IN  IF m1.err # "" \/ top(cur).t # "Struct" THEN m1
             ELSE IF Has(heap[top(cur).v].members, attr)
             THEN push(m1, Ptr(MemberPtr(top(cur).v, attr, heap[top(cur).v].gen)))
             ELSE [m1 EXCEPT !.err = NoMember(heap[top(cur).v].name, attr)])

\* HashMap::insert: a new key may move the table, so the layout count goes up.
handle_op_setattr ==
    Exec("Setattr",
         LET m1 == pop(cur)
             m2 == pop(m1)
             attr == operand(cur)
         IN  IF m2.err # "" \/ top(m1).t # "Struct" THEN m2
             ELSE LET r == top(m1).v
                      m3 == [m2 EXCEPT !.heap[r].members = Put(@, attr, top(cur)),
                                       !.heap[r].gen =
                                           IF Has(heap[r].members, attr) THEN @ ELSE @ + 1]
                  IN  push(m3, top(m1)))

handle_op_struct ==
    Exec("Struct",
         push([cur EXCEPT !.heap = Append(@, StructObject(operand(cur)))],
              Struct(Len(heap) + 1)))

\* `self.bytecode.sp[i]` for every index read: the names, or the panic of the first
\* index outside the pool.
sp_names(indices) ==
    IF \E i \in 1..Len(indices) : indices[i] >= Len(compiler.sp)
    THEN Panic("index out of bounds")
    ELSE [t |-> "Names", v |-> [i \in 1..Len(indices) |-> compiler.sp[indices[i] + 1]]]

handle_op_struct_blueprint ==
    Exec("StructBlueprint",
         LET head == read_u32s(cur, 2)
             blueprint_name_idx == head.values[1]
             member_count == head.values[2]
             body == read_u32s(head.m, member_count)
             names == sp_names(<< blueprint_name_idx >> \o body.values)
         IN  IF names.t = "Panic" THEN [body.m EXCEPT !.err = names.v]
             ELSE [body.m EXCEPT !.blueprints =
                      Put(@, names.v[1], Blueprint(names.v[1], Tail(names.v), EmptyMap))])

\* The loop of handle_op_impl over the methods read: each is inserted when the
\* blueprint is there.
RECURSIVE insert_methods(_, _, _)
insert_methods(bps, bp_name, fs) ==
    IF fs = <<>> THEN bps
    ELSE insert_methods(IF Has(bps, bp_name)
                        THEN [bps EXCEPT ![bp_name].methods = Put(@, Head(fs).name, Head(fs))]
                        ELSE bps,
                        bp_name, Tail(fs))

\* handle_op_impl that reads its record and registers nothing.
ImplRegistersNothing ==
    Exec("Impl",
         LET head == read_u32s(cur, 2)
             method_count == head.values[2]
         IN  read_u32s(head.m, 3 * method_count).m)

handle_op_impl ==
    Exec("Impl",
         LET head == read_u32s(cur, 2)
             blueprint_name_idx == head.values[1]
             method_count == head.values[2]
             body == read_u32s(head.m, 3 * method_count)
             names == sp_names(<< blueprint_name_idx >> \o
                               [i \in 1..method_count |-> body.values[3 * i - 2]])
         IN  IF names.t = "Panic" THEN [body.m EXCEPT !.err = names.v]
             ELSE [body.m EXCEPT !.blueprints =
                      insert_methods(@, names.v[1],
                          [i \in 1..method_count |->
                              Function(names.v[i + 1], body.values[3 * i],
                                       body.values[3 * i - 1], 0)])])

handle_op_vec ==
    Exec("Vec",
         LET element_count == operand(cur)
         IN  IF element_count > Len(stack)
             THEN [cur EXCEPT !.stack = <<>>, !.err = "popped an empty stack"]
             ELSE push([cur EXCEPT
                          !.stack = DropLast(@, element_count),
                          !.heap = Append(@, VecObject(
                              [i \in 1..element_count |-> stack[Len(stack) + 1 - i]]))],
                       Vec(Len(heap) + 1)))

\* `idx as usize` of a number the model holds.
as_usize(n) == IF n < 0 THEN 0 ELSE n

handle_op_vec_set ==
    Exec("VecSet",
         LET m1 == pop(cur)
             m2 == pop(m1)
             m3 == pop(m2)
             value == top(cur)
             idx == top(m1)
             vec == top(m2)
         IN  IF m3.err # "" THEN m3
             ELSE IF vec.t = "Vec" /\ idx.t = "Number"
             THEN IF Held(idx) /\ as_usize(idx.v) < Len(heap[vec.v].elems)
                  THEN [m3 EXCEPT !.heap[vec.v].elems[as_usize(idx.v) + 1] = value]
                  ELSE [m3 EXCEPT !.err = "index out of bounds"]
             ELSE m3)

handle_op_subscript ==
    Exec("Subscript",
         LET m1 == pop(cur)
             m2 == pop(m1)
             idx == top(cur)
             vec == top(m1)
         IN  IF m2.err # "" THEN m2
             ELSE IF vec.t = "Vec" /\ idx.t = "Number"
             THEN IF Held(idx) /\ as_usize(idx.v) < Len(heap[vec.v].elems)
                  THEN push(m2, heap[vec.v].elems[as_usize(idx.v) + 1])
                  ELSE [m2 EXCEPT !.err = "index out of bounds"]
             ELSE m2)

handle_op_pop ==
    Exec("Pop",
         LET popcount == operand(cur)
         IN  IF popcount > Len(stack)
             THEN [cur EXCEPT !.stack = <<>>, !.err = "popped an empty stack"]
             ELSE [cur EXCEPT !.stack = DropLast(@, popcount)])

\* std::process::exit(0)
handle_op_hlt ==
    /\ Fetch("Halt")
    /\ status' = "halted"
    /\ UNCHANGED << ast, compiler, stack, frame_ptrs, ip, blueprints, heap, out, hist >>

(***************************************************************************)
(* Programs                                                                *)
(***************************************************************************)
\* The largest number literal a program of Inputs is built around.
MaxN == 2

Var(name) == VariableExpression(name)
Num(n) == LiteralNum(n)
Bin(kind, l, r) == BinaryExpression(kind, l, r)
Assign(name, e) == ExpressionStatement(AssignExpression(Var(name), "Equal", e))
Update(name, o, e) == ExpressionStatement(AssignExpression(Var(name), o, e))
Store(lhs, e) == ExpressionStatement(AssignExpression(lhs, "Equal", e))
CallFn(name, args) == CallExpression(Var(name), args)
CallMethod(recv, o, member, args) == CallExpression(GetExpression(recv, o, member), args)
Fn(name, params, body) == FnStatement(name, params, BlockStatement(body))
Return(e) == ReturnStatement(e)
Block(body) == BlockStatement(body)
If(c, t) == IfStatement(c, t, Dummy)
Init1(member, e) == StructInitializerExpression(Var(member), e)

\* struct S { a, b, }  impl S { fn get(self) {..}  fn add(self, k) {..} }
\* struct T { a, }     impl T { fn get(self) {..} }
\* fn set(p, v) { *p = v; return 0; }
\* fn deep(p, v) { t = 9; r = set(p, v); return r + *p; }
\* fn fact(k) { if (k < 1) { return 1; } return k * fact(k - 1); }
\* fn down(a, b, c, d, e, f, g, k) { return down(a, b, c, d, e, f, g, k + 1); }
\* fn find(k) { for (i = 0; i < 3; i += 1) { j = i; while (j < 4) {
\*                if (j == k) { return j + 10; } j += 1; } } return 0; }
Prelude ==
    << StructStatement("S", << "a", "b" >>),
       ImplStatement("S", <<
           Fn("get", << "self" >>, << Return(GetExpression(Var("self"), "Dot", "a")) >>),
           Fn("add", << "self", "k" >>, <<
               Store(GetExpression(Var("self"), "Dot", "a"),
                     Bin("Add", GetExpression(Var("self"), "Dot", "a"), Var("k"))),
               Return(GetExpression(Var("self"), "Dot", "a")) >>) >>),
       StructStatement("T", << "a" >>),
       ImplStatement("T", <<
           Fn("get", << "self" >>, << Return(Num(77)) >>) >>),
       Fn("set", << "p", "v" >>, <<
           Store(UnaryExpression("Star", Var("p")), Var("v")),
           Return(Num(0)) >>),
       Fn("deep", << "p", "v" >>, <<
           Assign("t", Num(9)),
           Assign("r", CallFn("set", << Var("p"), Var("v") >>)),
           Return(Bin("Add", Var("r"), UnaryExpression("Star", Var("p")))) >>),
       Fn("fact", << "k" >>, <<
           If(Bin("Less", Var("k"), Num(1)), Block(<< Return(Num(1)) >>)),
           Return(Bin("Mul", Var("k"),
                      CallFn("fact", << Bin("Sub", Var("k"), Num(1)) >>))) >>),
       Fn("down", << "a", "b", "c", "d", "e", "f", "g", "k" >>, <<
           Return(CallFn("down", << Var("a"), Var("b"), Var("c"), Var("d"), Var("e"),
                                    Var("f"), Var("g"),
                                    Bin("Add", Var("k"), Num(1)) >>)) >>),
       Fn("find", << "k" >>, <<
           ForStatement(AssignExpression(Var("i"), "Equal", Num(0)),
                        Bin("Less", Var("i"), Num(3)),
                        AssignExpression(Var("i"), "PlusEqual", Num(1)),
               Block(<< Assign("j", Var("i")),
                        WhileStatement(Bin("Less", Var("j"), Num(4)),
                            Block(<< If(Bin("Equality", Var("j"), Var("k")),
                                        Block(<< Return(Bin("Add", Var("j"), Num(10))) >>)),
                                     Update("j", "PlusEqual", Num(1)) >>)) >>)),
           Return(Num(0)) >>) >>

Program(body) == Prelude \o << Fn("main", << >>, body) >>

\* `for (i = 0; i < n; i += 1) body`
ForUpTo(n, body) ==
    ForStatement(AssignExpression(Var("i"), "Equal", Num(0)),
                 Bin("Less", Var("i"), Num(n)),
                 AssignExpression(Var("i"), "PlusEqual", Num(1)),
                 body)

\* Bodies of main, around a number n.
Arith(n) ==
    << Assign("x", Num(n)),
       Assign("y", Bin("Add", Var("x"), Num(3))),
       Assign("y", Bin("Sub", Var("y"), Num(1))),
       Assign("y", Bin("Mul", Var("y"), Num(2))),
       Assign("y", Bin("Div", Var("y"), Num(2))),
       Assign("y", Bin("Mod", Var("y"), Num(4))),
       Assign("z", Bin("BitwiseOr", Bin("BitwiseAnd", Var("y"), Num(6)), Num(1))),
       Assign("z", Bin("BitwiseXor", Var("z"), Num(5))),
       Assign("z", Bin("BitwiseShl", Var("z"), Num(2))),
       Assign("z", Bin("BitwiseShr", Var("z"), Num(1))),
       Update("z", "PlusEqual", UnaryExpression("Minus", Var("x"))),
       Assign("b", UnaryExpression("Bang", Bin("Less", Var("x"), Var("y")))),
       Assign("c", UnaryExpression("Tilde", Bin("GreaterEqual", Var("x"), Var("y")))),
       Assign("e", LiteralNull),
       Assign("f", Bin("EqualityNegation", Var("x"), Var("y"))),
       Assign("g", Bin("LessEqual", Var("x"), Var("z"))),
       Assign("s", Bin("Strcat", LiteralString("a"), LiteralString("b"))),
       PrintStatement(Var("s")),
       Return(Var("z")) >>

Logic(n) ==
    << Assign("a", LogicalExpression(Bin("Less", Num(n), Num(1)), "DoubleAmpersand",
                                     Bin("Equality", Num(n), Num(0)))),
       Assign("b", LogicalExpression(Bin("Greater", Num(n), Num(1)), "DoublePipe",
                                     LiteralBool(n = 1))),
       Assign("c", LogicalExpression(
                       LogicalExpression(Bin("Less", Num(n), Num(1)), "DoublePipe",
                                         Bin("Equality", CallFn("fact", << Num(n) >>),
                                             Num(1))),
                       "DoubleAmpersand",
                       UnaryExpression("Bang",
                           LogicalExpression(Bin("Equality", Num(n), Num(2)),
                                             "DoubleAmpersand", Var("a"))))),
       IfStatement(Var("a"), Block(<< PrintStatement(Num(1)) >>),
                             Block(<< PrintStatement(Num(2)) >>)),
       Return(Var("b")) >>

While(n) ==
    << Assign("i", Num(0)),
       WhileStatement(Bin("Less", Var("i"), Num(n + 1)),
           Block(<< Update("i", "PlusEqual", Num(1)),
                    If(Bin("Equality", Var("i"), Num(1)), Block(<< ContinueStatement >>)),
                    Assign("t", Var("i")),
                    If(Bin("Equality", Var("i"), Num(2)), Block(<< BreakStatement >>)) >>)),
       Return(Var("i")) >>

For(n) ==
    << Assign("s", Num(0)),
       ForUpTo(n, Block(<< Update("s", "PlusEqual", Var("i")) >>)),
       Return(Var("s")) >>

\* for (i = 0; i < n; i += 1) x = 1;  return 0;
ForUnbraced(n) == << ForUpTo(n, Assign("x", Num(1))), Return(Num(0)) >>

\* if (n > 0) x = 1;  return 7;
IfUnbraced(n) ==
    << If(Bin("Greater", Num(n), Num(0)), Assign("x", Num(1))), Return(Num(7)) >>

\* a = 5;  { if (n > 0) x = 2; }  return a;
BlockIf(n) ==
    << Assign("a", Num(5)),
       Block(<< If(Bin("Greater", Num(n), Num(0)), Assign("x", Num(2))) >>),
       Return(Var("a")) >>

\* a = 5;  { b = n; { c = b; } b = 1; }  return a;
Blocks(n) ==
    << Assign("a", Num(5)),
       Block(<< Assign("b", Num(n)),
                Block(<< Assign("c", Var("b")) >>),
                Assign("b", Num(1)) >>),
       Return(Var("a")) >>

\* for (i = 0; i < n; i += 1) x = 1;  x = 2;  return x;
AfterFor(n) ==
    << ForUpTo(n, Assign("x", Num(1))), Assign("x", Num(2)), Return(Var("x")) >>

\* x = 1; y = 2; p = &x; r = deep(p, n); *p = *p + y; z = *p; return x + z;
Pointers(n) ==
    << Assign("x", Num(1)),
       Assign("y", Num(2)),
       Assign("p", UnaryExpression("Ampersand", Var("x"))),
       Assign("r", CallFn("deep", << Var("p"), Num(n) >>)),
       Store(UnaryExpression("Star", Var("p")),
             Bin("Add", UnaryExpression("Star", Var("p")), Var("y"))),
       Assign("z", UnaryExpression("Star", Var("p"))),
       Return(Bin("Add", Var("x"), Var("z"))) >>

\* p = 0; x = 1; p = &x;  { if (n > 0) y = 2; }  return *p;
PointerPopped(n) ==
    << Assign("p", Num(0)),
       Assign("x", Num(1)),
       Assign("p", UnaryExpression("Ampersand", Var("x"))),
       Block(<< If(Bin("Greater", Num(n), Num(0)), Assign("y", Num(2))) >>),
       Return(UnaryExpression("Star", Var("p"))) >>

\* s = S { a: n, b: 2 }; t = T { a: 5 }; u = s.get(); w = t.get(); v = s.add(3);
\* q = &s; q->a = 4; k = q->get(); m = &s.b; *m = 9; return s.b;
Structs(n) ==
    << Assign("s", StructExpression("S", << Init1("a", Num(n)), Init1("b", Num(2)) >>)),
       Assign("t", StructExpression("T", << Init1("a", Num(5)) >>)),
       Assign("u", CallMethod(Var("s"), "Dot", "get", << >>)),
       Assign("w", CallMethod(Var("t"), "Dot", "get", << >>)),
       Assign("v", CallMethod(Var("s"), "Dot", "add", << Num(3) >>)),
       Assign("q", UnaryExpression("Ampersand", Var("s"))),
       Store(GetExpression(Var("q"), "Arrow", "a"), Num(4)),
       Assign("k", CallMethod(Var("q"), "Arrow", "get", << >>)),
       Assign("m", UnaryExpression("Ampersand", GetExpression(Var("s"), "Dot", "b"))),
       Store(UnaryExpression("Star", Var("m")), Num(9)),
       Return(GetExpression(Var("s"), "Dot", "b")) >>

\* s = S { a: 1, b: n }; return s.add();
Arity(n) ==
    << Assign("s", StructExpression("S", << Init1("a", Num(1)), Init1("b", Num(n)) >>)),
       Return(CallMethod(Var("s"), "Dot", "add", << >>)) >>

\* v = [1, 2, n]; v[0] = v[2]; v[1] += 1; return v[1];
Vecs(n) ==
    << Assign("v", VecExpression(<< Num(1), Num(2), Num(n) >>)),
       Store(SubscriptExpression(Var("v"), Num(0)), SubscriptExpression(Var("v"), Num(2))),
       ExpressionStatement(AssignExpression(SubscriptExpression(Var("v"), Num(1)),
                                            "PlusEqual", Num(1))),
       Return(SubscriptExpression(Var("v"), Num(1))) >>

\* x = n; v = [x, fact(n), [x + 1, 7], n < 1]; w = v[2]; w[0] = 9; v[1] = x;
\* v[3] = v[0]; return v[1];
VecLiterals(n) ==
    << Assign("x", Num(n)),
       Assign("v", VecExpression(<< Var("x"), CallFn("fact", << Num(n) >>),
                                    VecExpression(<< Bin("Add", Var("x"), Num(1)),
                                                     Num(7) >>),
                                    Bin("Less", Num(n), Num(1)) >>)),
       Assign("w", SubscriptExpression(Var("v"), Num(2))),
       Store(SubscriptExpression(Var("w"), Num(0)), Num(9)),
       Store(SubscriptExpression(Var("v"), Num(1)), Var("x")),
       Store(SubscriptExpression(Var("v"), Num(3)), SubscriptExpression(Var("v"), Num(0))),
       Return(SubscriptExpression(Var("v"), Num(1))) >>

\* fn poke(q, u, k, f) { q.a = 11; u[1] = 12; k = 13; f = true; return 0; }
\* fn main() {
\*     s = S { a: n, b: 2 }; t = s; t.a = 7; print s.a;
\*     v = [1, 2]; w = v; w[0] = 9; print v[0];
\*     a = n; b = a; b = 5; print a;
\*     c = false; d = c; d = true; print c;
\*     r = poke(s, v, a, c); print t.a; print w[1]; print a; print c;
\*     z = t.add(3); print s.a;
\*     s.b = 1; print t.b;
\*     return 0;
\* }
Sharing(n) ==
    Prelude \o
    << Fn("poke", << "q", "u", "k", "f" >>, <<
           Store(GetExpression(Var("q"), "Dot", "a"), Num(11)),
           Store(SubscriptExpression(Var("u"), Num(1)), Num(12)),
           Assign("k", Num(13)),
           Assign("f", LiteralBool(TRUE)),
           Return(Num(0)) >>),
       Fn("main", << >>, <<
           Assign("s", StructExpression("S", << Init1("a", Num(n)), Init1("b", Num(2)) >>)),
           Assign("t", Var("s")),
           Store(GetExpression(Var("t"), "Dot", "a"), Num(7)),
           PrintStatement(GetExpression(Var("s"), "Dot", "a")),
           Assign("v", VecExpression(<< Num(1), Num(2) >>)),
           Assign("w", Var("v")),
           Store(SubscriptExpression(Var("w"), Num(0)), Num(9)),
           PrintStatement(SubscriptExpression(Var("v"), Num(0))),
           Assign("a", Num(n)),
           Assign("b", Var("a")),
           Assign("b", Num(5)),
           PrintStatement(Var("a")),
           Assign("c", LiteralBool(FALSE)),
           Assign("d", Var("c")),
           Assign("d", LiteralBool(TRUE)),
           PrintStatement(Var("c")),
           Assign("r", CallFn("poke", << Var("s"), Var("v"), Var("a"), Var("c") >>)),
           PrintStatement(GetExpression(Var("t"), "Dot", "a")),
           PrintStatement(SubscriptExpression(Var("w"), Num(1))),
           PrintStatement(Var("a")),
           PrintStatement(Var("c")),
           Assign("z", CallMethod(Var("t"), "Dot", "add", << Num(3) >>)),
           PrintStatement(GetExpression(Var("s"), "Dot", "a")),
           Store(GetExpression(Var("s"), "Dot", "b"), Num(1)),
           PrintStatement(GetExpression(Var("t"), "Dot", "b")),
           Return(Num(0)) >>) >>
\* What Sharing(n) prints when structs and vecs are shared and numbers and bools are
\* copied.
SharingPrints(n) ==
    << Number(7), Number(9), Number(n), Bool(FALSE), Number(11), Number(12), Number(n),
       Bool(FALSE), Number(14), Number(1) >>

\* s = S { a: n, b: fact(n) }; t = S { b: n < 1, a: T { a: s.a } }; u = t.a;
\* print u.a; return t.b;
StructLiterals(n) ==
    << Assign("s", StructExpression("S", << Init1("a", Num(n)),
                                            Init1("b", CallFn("fact", << Num(n) >>)) >>)),
       Assign("t", StructExpression("S", <<
           Init1("b", Bin("Less", Num(n), Num(1))),
           Init1("a", StructExpression("T", <<
               Init1("a", GetExpression(Var("s"), "Dot", "a")) >>)) >>)),
       Assign("u", GetExpression(Var("t"), "Dot", "a")),
       PrintStatement(GetExpression(Var("u"), "Dot", "a")),
       Return(GetExpression(Var("t"), "Dot", "b")) >>
\* Struct literals the compiler rejects, one body of main per program.
\*   return U { a: 1 };   return S { a: 1 };   return T { a: 1, b: 2 };
BadLiterals ==
    << << Return(StructExpression("U", << Init1("a", Num(1)) >>)) >>,
       << Return(StructExpression("S", << Init1("a", Num(1)) >>)) >>,
       << Return(StructExpression("T", << Init1("a", Num(1)), Init1("b", Num(2)) >>)) >> >>
\* fn main() { return L { a: 1 }; }  struct L { a, }
StructDeclaredLater ==
    Prelude \o << Fn("main", << >>, << Return(StructExpression("L", << Init1("a", Num(1)) >>)) >>),
                  StructStatement("L", << "a" >>) >>

\* Bitwise operations, one body of main per program.
\*   a = -3; print a & 7; print a | 5; print a ^ 6; print 1 << a; print 12 >> a;
\*   print 13 & 7; print 9 | 6; print 3 << 4; print 200 >> 3; return 0;
\*   return ~5;        return 3 << 64;        return 8 >> 66;
Bits ==
    << << Assign("a", UnaryExpression("Minus", Num(3))),
          PrintStatement(Bin("BitwiseAnd", Var("a"), Num(7))),
          PrintStatement(Bin("BitwiseOr", Var("a"), Num(5))),
          PrintStatement(Bin("BitwiseXor", Var("a"), Num(6))),
          PrintStatement(Bin("BitwiseShl", Num(1), Var("a"))),
          PrintStatement(Bin("BitwiseShr", Num(12), Var("a"))),
          PrintStatement(Bin("BitwiseAnd", Num(13), Num(7))),
          PrintStatement(Bin("BitwiseOr", Num(9), Num(6))),
          PrintStatement(Bin("BitwiseShl", Num(3), Num(4))),
          PrintStatement(Bin("BitwiseShr", Num(200), Num(3))),
          Return(Num(0)) >>,
       << Return(UnaryExpression("Tilde", Num(5))) >>,
       << Return(Bin("BitwiseShl", Num(3), Num(64))) >>,
       << Return(Bin("BitwiseShr", Num(8), Num(66))) >> >>

Fact(n) == << Return(CallFn("fact", << Num(n) >>)) >>
Find(n) == << Return(CallFn("find", << Num(n) >>)) >>

\* return down(1, 2, 3, 4, 5, 6, 7, 0);
Down == << Return(CallFn("down", << Num(1), Num(2), Num(3), Num(4), Num(5), Num(6),
                                    Num(7), Num(0) >>)) >>
\* print y; return 0;
Undefined == << PrintStatement(Var("y")), Return(Num(0)) >>
\* return nowhere();
NoSuchFunction == << Return(CallFn("nowhere", << >>)) >>

\* i = 0;  while (i < 1) { i += 1; if (i > 5) { break; } }  break;  return i;
BreakAfterLoop ==
    << Assign("i", Num(0)),
       WhileStatement(Bin("Less", Var("i"), Num(1)),
           Block(<< Update("i", "PlusEqual", Num(1)),
                    If(Bin("Greater", Var("i"), Num(5)), Block(<< BreakStatement >>)) >>)),
       BreakStatement,
       Return(Var("i")) >>
\* if (1 < 2) { continue; }  return 0;
ContinueInIf ==
    << If(Bin("Less", Num(1), Num(2)), Block(<< ContinueStatement >>)),
       Return(Num(0)) >>
\* fn main() { return 1; }  fn main() { return 2; }
\* fn main() { t = T { a: 3 }; return t.twice(); }
\* impl T { fn twice(self) { return self.a + self.a; } }
ImplAfterMain ==
    Prelude \o << Fn("main", << >>, <<
                      Assign("t", StructExpression("T", << Init1("a", Num(3)) >>)),
                      Return(CallMethod(Var("t"), "Dot", "twice", << >>)) >>),
                  ImplStatement("T", <<
                      Fn("twice", << "self" >>, <<
                          Return(Bin("Add", GetExpression(Var("self"), "Dot", "a"),
                                     GetExpression(Var("self"), "Dot", "a"))) >>) >>) >>

\* i = 7; s = 0; for (i = 0; i < n; i += 1) { s += i + 1; }  return s;
Shadowed(n) ==
    << Assign("i", Num(7)), Assign("s", Num(0)),
       ForUpTo(n, Block(<< Update("s", "PlusEqual", Bin("Add", Var("i"), Num(1))) >>)),
       Return(Var("s")) >>

\* fn shrink(a) { { if (0 > 0) x = 2; } { if (0 > 0) y = 2; } return 0; }
\* fn main() { m = 4; n = 5; return shrink(m); }
Shrink ==
    Prelude \o << Fn("shrink", << "a" >>, <<
                      Block(<< If(Bin("Greater", Num(0), Num(0)), Assign("x", Num(2))) >>),
                      Block(<< If(Bin("Greater", Num(0), Num(0)), Assign("y", Num(2))) >>),
                      Return(Num(0)) >>),
                  Fn("main", << >>, <<
                      Assign("m", Num(4)), Assign("n", Num(5)),
                      Return(CallFn("shrink", << Var("m") >>)) >>) >>

\* Conditions that are no bools, one body of main per program.
\*   if (0) { return 1; } return 2;
\*   if (null) { return 1; } return 2;
\*   if ("s") { return 1; } return 2;
\*   s = S { a: 1, b: 2 }; if (s) { return 1; } return 2;
\*   n = 0; while (n) { n += 1; if (n > 1) { break; } } return n;
NonBoolConditions ==
    << << If(Num(0), Block(<< Return(Num(1)) >>)), Return(Num(2)) >>,
       << If(LiteralNull, Block(<< Return(Num(1)) >>)), Return(Num(2)) >>,
       << If(LiteralString("s"), Block(<< Return(Num(1)) >>)), Return(Num(2)) >>,
       << Assign("s", StructExpression("S", << Init1("a", Num(1)), Init1("b", Num(2)) >>)),
          If(Var("s"), Block(<< Return(Num(1)) >>)), Return(Num(2)) >>,
       << Assign("n", Num(0)),
          WhileStatement(Var("n"),
              Block(<< Update("n", "PlusEqual", Num(1)),
                       If(Bin("Greater", Var("n"), Num(1)),
                          Block(<< BreakStatement >>)) >>)),
          Return(Var("n")) >> >>

\* fn noret(a, b, c, d, e, f, g, k) { t = k; }
\* fn main() { return noret(1, 2, 3, 4, 5, 6, 7, 8); }
NoReturn ==
    Prelude \o << Fn("noret", << "a", "b", "c", "d", "e", "f", "g", "k" >>, <<
                      Assign("t", Var("k")) >>),
                  Fn("main", << >>, <<
                      Return(CallFn("noret", << Num(1), Num(2), Num(3), Num(4), Num(5),
                                               Num(6), Num(7), Num(8) >>)) >>) >>

TwoMains ==
    Prelude \o << Fn("main", << >>, << Return(Num(1)) >>),
                  Fn("main", << >>, << Return(Num(2)) >>) >>
\* Operands that are no numbers: one returned expression per program.
\*   true + 1;  1 - "s";  null * null;  "a" / "b";  [1] % 2
NotNumbers ==
    << << Return(Bin("Add", LiteralBool(TRUE), Num(1))) >>,
       << Return(Bin("Sub", Num(1), LiteralString("s"))) >>,
       << Return(Bin("Mul", LiteralNull, LiteralNull)) >>,
       << Return(Bin("Div", LiteralString("a"), LiteralString("b"))) >>,
       << Return(Bin("Mod", VecExpression(<< Num(1) >>), Num(2))) >> >>
\*   true < false;  "a" > "b";  null < null;  1 < true;  null >= 2;  "a" <= "a"
NotOrdered ==
    << << Return(Bin("Less", LiteralBool(TRUE), LiteralBool(FALSE))) >>,
       << Return(Bin("Greater", LiteralString("a"), LiteralString("b"))) >>,
       << Return(Bin("Less", LiteralNull, LiteralNull)) >>,
       << Return(Bin("Less", Num(1), LiteralBool(TRUE))) >>,
       << Return(Bin("GreaterEqual", LiteralNull, Num(2))) >>,
       << Return(Bin("LessEqual", LiteralString("a"), LiteralString("a"))) >> >>
\* Member accesses, one body of main per program.
\*   s = S { a: 1, b: 2 }; return s.q;
\*   x = 1; return x.a;
\*   s = S { a: 1, b: 2 }; s.q = 5; return s.q;
\*   x = 1; x.a = 5; return x;
Members ==
    << << Assign("s", StructExpression("S", << Init1("a", Num(1)), Init1("b", Num(2)) >>)),
          Return(GetExpression(Var("s"), "Dot", "q")) >>,
       << Assign("x", Num(1)),
          Return(GetExpression(Var("x"), "Dot", "a")) >>,
       << Assign("s", StructExpression("S", << Init1("a", Num(1)), Init1("b", Num(2)) >>)),
          Store(GetExpression(Var("s"), "Dot", "q"), Num(5)),
          Return(GetExpression(Var("s"), "Dot", "q")) >>,
       << Assign("x", Num(1)),
          Store(GetExpression(Var("x"), "Dot", "a"), Num(5)),
          Return(Var("x")) >> >>
\* Method calls, one body of main per program.
\*   x = 1; return x.get();
\*   s = S { a: 1, b: 2 }; return s.nothing();
\*   s = S { a: 1, b: 2 }; return s.get(7);
\*   t = T { a: 1 }; return t.add(2);
MethodCalls ==
    << << Assign("x", Num(1)),
          Return(CallMethod(Var("x"), "Dot", "get", << >>)) >>,
       << Assign("s", StructExpression("S", << Init1("a", Num(1)), Init1("b", Num(2)) >>)),
          Return(CallMethod(Var("s"), "Dot", "nothing", << >>)) >>,
       << Assign("s", StructExpression("S", << Init1("a", Num(1)), Init1("b", Num(2)) >>)),
          Return(CallMethod(Var("s"), "Dot", "get", << Num(7) >>)) >>,
       << Assign("t", StructExpression("T", << Init1("a", Num(1)) >>)),
          Return(CallMethod(Var("t"), "Dot", "add", << Num(2) >>)) >> >>
\* return fact();
WrongArity == << Return(CallFn("fact", << >>)) >>
\* return get(S { a: 1, b: 2 });
MethodCalledDirectly ==
    << Return(CallFn("get", << StructExpression("S", << Init1("a", Num(1)),
                                                        Init1("b", Num(2)) >>) >>)) >>
\* fn main() { return later(1); }  fn later(x) { return x; }
DeclaredLater ==
    Prelude \o << Fn("main", << >>, << Return(CallFn("later", << Num(1) >>)) >>),
                  Fn("later", << "x" >>, << Return(Var("x")) >>) >>

\* The programs around n, then those around every smaller number.
RECURSIVE InputsUpTo(_)
\* s = 0;
\* for (i = 0; i < 3; i += 1) {
\*     j = 0;
\*     while (j < 3) { k = j; j += 1; if (k == n) { m = k; break; }
\*                     if (k == 0) continue;  s += 1; }
\*     if (i == n) { continue; }  if (i == 1) { t = s; break; }  s += 10;
\* }
\* return s;
Nested(n) ==
    << Assign("s", Num(0)),
       ForStatement(AssignExpression(Var("i"), "Equal", Num(0)),
                    Bin("Less", Var("i"), Num(3)),
                    AssignExpression(Var("i"), "PlusEqual", Num(1)),
           Block(<< Assign("j", Num(0)),
                    WhileStatement(Bin("Less", Var("j"), Num(3)),
                        Block(<< Assign("k", Var("j")),
                                 Update("j", "PlusEqual", Num(1)),
                                 If(Bin("Equality", Var("k"), Num(n)),
                                    Block(<< Assign("m", Var("k")), BreakStatement >>)),
                                 If(Bin("Equality", Var("k"), Num(0)), ContinueStatement),
                                 Update("s", "PlusEqual", Num(1)) >>)),
                    If(Bin("Equality", Var("i"), Num(n)), Block(<< ContinueStatement >>)),
                    If(Bin("Equality", Var("i"), Num(1)),
                       Block(<< Assign("t", Var("s")), BreakStatement >>)),
                    Update("s", "PlusEqual", Num(10)) >>)),
       Return(Var("s")) >>

\* a = 5;  while (a > 0) { if (n > 0) y = 2; break; }  return a;
BreakPopped(n) ==
    << Assign("a", Num(5)),
       WhileStatement(Bin("Greater", Var("a"), Num(0)),
           Block(<< If(Bin("Greater", Num(n), Num(0)), Assign("y", Num(2))),
                    BreakStatement >>)),
       Return(Var("a")) >>

\* a = 0;  while (a < 1) { a += 1; if (n > 0) y = 2; continue; }  return a;
ContinuePopped(n) ==
    << Assign("a", Num(0)),
       WhileStatement(Bin("Less", Var("a"), Num(1)),
           Block(<< Update("a", "PlusEqual", Num(1)),
                    If(Bin("Greater", Num(n), Num(0)), Assign("y", Num(2))),
                    ContinueStatement >>)),
       Return(Var("a")) >>

\* x = n + 8; x -= 1; x *= 2; x /= 2; x %= 5; x <<= 1; x |= 1; x ^= 2; x &= 7;
\* v = [n, 4]; v[0] *= 3; v[1] -= n; v[1] >>= 1;  return x + v[0];
Compound(n) ==
    << Assign("x", Bin("Add", Num(n), Num(8))),
       Update("x", "MinusEqual", Num(1)),
       Update("x", "StarEqual", Num(2)),
       Update("x", "SlashEqual", Num(2)),
       Update("x", "PercentEqual", Num(5)),
       Update("x", "LessLessEqual", Num(1)),
       Update("x", "PipeEqual", Num(1)),
       Update("x", "CaretEqual", Num(2)),
       Update("x", "AmpersandEqual", Num(7)),
       Assign("v", VecExpression(<< Num(n), Num(4) >>)),
       ExpressionStatement(AssignExpression(SubscriptExpression(Var("v"), Num(0)),
                                            "StarEqual", Num(3))),
       ExpressionStatement(AssignExpression(SubscriptExpression(Var("v"), Num(1)),
                                            "MinusEqual", Num(n))),
       ExpressionStatement(AssignExpression(SubscriptExpression(Var("v"), Num(1)),
                                            "GreaterGreaterEqual", Num(1))),
       Return(Bin("Add", Var("x"), SubscriptExpression(Var("v"), Num(0)))) >>

\* x = n; p = &x; *p += 2;  return x;
CompoundDeref(n) ==
    << Assign("x", Num(n)),
       Assign("p", UnaryExpression("Ampersand", Var("x"))),
       ExpressionStatement(AssignExpression(UnaryExpression("Star", Var("p")),
                                            "PlusEqual", Num(2))),
       Return(Var("x")) >>

\* s = S { a: n, b: 2 }; s.a += 3;  return s.a;
CompoundMember(n) ==
    << Assign("s", StructExpression("S", << Init1("a", Num(n)), Init1("b", Num(2)) >>)),
       ExpressionStatement(AssignExpression(GetExpression(Var("s"), "Dot", "a"),
                                            "PlusEqual", Num(3))),
       Return(GetExpression(Var("s"), "Dot", "a")) >>

\* s = S { a: n, b: 2 }; q = &s; q->b *= 3;  return s.b;
CompoundArrow(n) ==
    << Assign("s", StructExpression("S", << Init1("a", Num(n)), Init1("b", Num(2)) >>)),
       Assign("q", UnaryExpression("Ampersand", Var("s"))),
       ExpressionStatement(AssignExpression(GetExpression(Var("q"), "Arrow", "b"),
                                            "StarEqual", Num(3))),
       Return(GetExpression(Var("s"), "Dot", "b")) >>

InputsUpTo(n) ==
    (IF n = 0 THEN << >> ELSE InputsUpTo(n - 1)) \o
    << Program(Arith(n)), Program(Logic(n)), Program(While(n)), Program(For(n)),
       Program(ForUnbraced(n)), Program(IfUnbraced(n)), Program(BlockIf(n)),
       Program(Blocks(n)), Program(AfterFor(n)), Program(Pointers(n)),
       Program(Structs(n)), Program(Arity(n)), Program(Vecs(n)), Program(Fact(n)),
       Program(Find(n)), Program(PointerPopped(n)), Program(Nested(n)),
       Program(BreakPopped(n)), Program(ContinuePopped(n)), Program(Compound(n)),
       Program(CompoundDeref(n)), Program(CompoundMember(n)), Program(VecLiterals(n)),
       Sharing(n), Program(StructLiterals(n)),
       Program(CompoundArrow(n)), Program(Shadowed(n)) >>

Inputs ==
    << Program(Down), Program(Undefined), Program(NoSuchFunction), Prelude,
       Program(WrongArity), Program(MethodCalledDirectly), DeclaredLater,
       Program(BreakAfterLoop), Program(ContinueInIf), TwoMains >>
    \o [i \in 1..Len(NotNumbers) |-> Program(NotNumbers[i])]
    \o [i \in 1..Len(NotOrdered) |-> Program(NotOrdered[i])]
    \o [i \in 1..Len(Members) |-> Program(Members[i])]
    \o [i \in 1..Len(MethodCalls) |-> Program(MethodCalls[i])]
    \o [i \in 1..Len(BadLiterals) |-> Program(BadLiterals[i])]
    \o [i \in 1..Len(Bits) |-> Program(Bits[i])]
    \o [i \in 1..Len(NonBoolConditions) |-> Program(NonBoolConditions[i])]
    \o << StructDeclaredLater, ImplAfterMain, Shrink, NoReturn >>
    \o InputsUpTo(MaxN)

(***************************************************************************)
(* Specification                                                           *)
(***************************************************************************)
\* Compiler::new and VM::new, before Compiler::compile ran.
Init ==
    /\ \E i \in 1..Len(Inputs) : ast = Inputs[i]
    /\ compiler = new
    /\ stack = << >>
    /\ frame_ptrs = << >>
    /\ ip = 0
    /\ blueprints = EmptyMap
    /\ heap = << >>
    /\ out = << >>
    /\ status = "compiling"
    /\ hist = HistInit

\* Compiler::compile, and on Ok the start of VM::exec at the first element.
Compile ==
    /\ status = "compiling"
    /\ compiler' = compile(ast)
    /\ status' = IF ok(compiler') THEN "running" ELSE compiler'.err
    /\ UNCHANGED << ast, stack, frame_ptrs, ip, blueprints, heap, out, hist >>

Next ==
    \/ Compile
    \/ handle_op_print \/ handle_op_const \/ handle_op_add \/ handle_op_sub
    \/ handle_op_mul \/ handle_op_div \/ handle_op_mod \/ handle_op_bitand
    \/ handle_op_bitor \/ handle_op_bitxor \/ handle_op_bitshl \/ handle_op_bitshr
    \/ handle_op_bitnot \/ handle_op_false \/ handle_op_not \/ handle_op_neg
    \/ handle_op_null \/ handle_op_eq \/ handle_op_lt \/ handle_op_gt
    \/ handle_op_str \/ handle_op_jmp \/ handle_op_jz \/ handle_op_call
    \/ handle_op_call_method \/ handle_op_ret \/ handle_op_deepget
    \/ handle_op_deepgetptr \/ handle_op_deepset \/ handle_op_deref
    \/ handle_op_derefset \/ handle_op_getattr \/ handle_op_getattrptr
    \/ handle_op_setattr \/ handle_op_strcat \/ handle_op_struct
    \/ handle_op_struct_blueprint \/ handle_op_impl \/ handle_op_vec
    \/ handle_op_vec_set \/ handle_op_subscript \/ handle_op_pop \/ handle_op_hlt

Spec == Init /\ [][Next]_vars

\* The string pool on its own: add_string called with any strings, in any order.
\* hist is the list of the calls made: the string, the index returned, and the pool
\* before and after.
Strings == { "a", "b", "S", "get", "self" }
MaxCalls == 4

InitPool ==
    /\ ast = << >>
    /\ compiler = new
    /\ stack = << >>
    /\ frame_ptrs = << >>
    /\ ip = 0
    /\ blueprints = EmptyMap
    /\ heap = << >>
    /\ out = << >>
    /\ status = "pool"
    /\ hist = << >>

AddString ==
    /\ status = "pool"
    /\ Len(hist) < MaxCalls
    /\ \E s \in Strings :
         /\ compiler' = [compiler EXCEPT !.sp = add_string(compiler.sp, s).sp]
         /\ hist' = Append(hist, [s |-> s, idx |-> add_string(compiler.sp, s).idx,
                                  before |-> compiler.sp,
                                  after |-> add_string(compiler.sp, s).sp])
    /\ UNCHANGED << ast, stack, frame_ptrs, ip, blueprints, heap, out, status >>

NextPool == AddString

SpecPool == InitPool /\ [][NextPool]_vars

(***************************************************************************)
(* Properties                                                              *)
(***************************************************************************)
\* C1: when the VM executes Halt the value stack is empty.  (Every function and
\* method of Inputs ends in a return statement, so every run that reaches Halt left
\* each function it entered through a return.)
C1_StackEmptyAtHalt == status = "halted" => stack = << >>

\* C2: a step that executes the closing Pop of a block, in the frame that entered the
\* block at its first instruction and did not leave it since, leaves the value stack
\* as long as it was when the block was entered.
C2_BlockBalanced ==
    [][\A b \in 1..Len(compiler.blocks) :
          (/\ Fetch("Pop")
           /\ compiler.blocks[b].pop = ip
           /\ << Len(frame_ptrs), b >> \in DOMAIN hist.entry
           /\ status' = "running")
          => Len(stack') = hist.entry[<< Len(frame_ptrs), b >>]]_vars

\* C3: after the Ret of a return statement the value stack has length frame_base + 1
\* and the slot at frame_base holds the value the return expression had, frame_base
\* being the location of the frame the Ret takes off.
C3_ReturnValueAtFrameBase ==
    [][(/\ Fetch("Ret")
        /\ frame_ptrs # << >>
        /\ \E r \in 1..Len(compiler.returns) : compiler.returns[r].ret = ip
        /\ status' = "running")
       => /\ Len(stack') = Last(frame_ptrs).location + 1
          /\ stack'[Last(frame_ptrs).location + 1] = hist.retval]_vars

\* C4: Call(nargs) pushes a frame and goes on to the next element, the Jmp, leaving
\* the value stack alone; that Jmp goes to the first instruction of a function's
\* body; the Ret that takes off a frame pushed by a Call goes to the element right
\* after that Jmp.
C4_CallThenJmpThenReturn ==
    [][/\ (Fetch("Call") /\ status' = "running")
          => /\ stack' = stack
             /\ frame_ptrs' = Append(frame_ptrs,
                                     BytecodePtr(ip + 1, Len(stack) - code[ip + 1].x))
             /\ ip' = ip + 1
             /\ code[ip' + 1].op = "Jmp"
       /\ (Fetch("Jmp") /\ ip > 0 /\ code[ip].op = "Call" /\ status' = "running")
          => /\ \E f \in DOMAIN compiler.functions :
                   compiler.functions[f].location = code[ip + 1].x
             /\ ip' = code[ip + 1].x + 1
             /\ stack' = stack /\ frame_ptrs' = frame_ptrs
       /\ (/\ Fetch("Ret")
           /\ hist.calls # << >>
           /\ code[Last(hist.calls).site + 1].op = "Call"
           /\ status' = "running")
          => ip' = Last(hist.calls).site + 2]_vars

\* C4, reached: a Ret has just taken off a frame that a Call pushed inside a running
\* function, and the VM is at the element after the Jmp that followed the Call.
C4_Returned ==
    /\ status = "running"
    /\ hist.op = "Ret"
    /\ frame_ptrs # << >>
    /\ code[hist.popped.site + 1].op = "Call"
    /\ code[hist.popped.site + 2].op = "Jmp"
    /\ ip = hist.popped.site + 2

\* Whether the compiler log's entries j < k belong to one function, and whether the
\* block in which entry j declared its name is still open at entry k.
SameFunction(j, k) == \A i \in (j + 1)..k : compiler.log[i].e # "fn"
DeclaringBlockOpen(j, k) ==
    \A i \in (j + 1)..k :
        compiler.log[i].e = "exit" => compiler.log[i].depth > compiler.log[j].depth

\* C5: every resolve_local(name) of a name that is in locals returns its index with
\* fresh = false and changes nothing; of a name that is absent it appends the name and
\* returns the new last index with fresh = true, every other local keeping its index;
\* and within one function, from the resolve_local that declared a name (or from the
\* parameter list) until the declaring block exits, every resolve_local of the name
\* returns that same index with fresh = false.
C5_SlotStability ==
    \A k \in 1..Len(compiler.log) :
        compiler.log[k].e = "resolve" =>
            /\ IF \E i \in 1..Len(compiler.log[k].before) :
                      compiler.log[k].before[i] = compiler.log[k].name
               THEN /\ ~compiler.log[k].fresh
                    /\ compiler.log[k].before[compiler.log[k].idx + 1] = compiler.log[k].name
                    /\ compiler.log[k].after = compiler.log[k].before
               ELSE /\ compiler.log[k].fresh
                    /\ compiler.log[k].idx = Len(compiler.log[k].before)
                    /\ compiler.log[k].after =
                           Append(compiler.log[k].before, compiler.log[k].name)
            /\ \A j \in 1..(k - 1) :
                   (/\ compiler.log[j].e = "resolve"
                    /\ compiler.log[j].fresh
                    /\ compiler.log[j].name = compiler.log[k].name
                    /\ SameFunction(j, k)
                    /\ DeclaringBlockOpen(j, k))
                   => /\ compiler.log[k].idx = compiler.log[j].idx
                      /\ ~compiler.log[k].fresh
            /\ \A j \in 1..(k - 1) :
                   (/\ compiler.log[j].e = "param"
                    /\ compiler.log[j].name = compiler.log[k].name
                    /\ SameFunction(j, k))
                   => /\ compiler.log[k].idx = compiler.log[j].idx
                      /\ ~compiler.log[k].fresh

\* A jump to x makes the loop dispatch the element after x: it is an element of the
\* code, and no Raw byte of an immediate.
LandsOnOpcode(x) == x + 2 \in 1..Len(code) /\ code[x + 2].op # "Raw"

\* C6: in a compiled program every Jmp and Jz target, and the location of every
\* function and method, makes the VM go on at an opcode inside the code.
C6_JumpTargets ==
    (status # "compiling" /\ status # "pool" /\ ok(compiler)) =>
        /\ \A i \in 1..Len(code) :
               code[i].op \in {"Jmp", "Jz"} => LandsOnOpcode(code[i].x)
        /\ \A f \in DOMAIN compiler.functions :
               LandsOnOpcode(compiler.functions[f].location)
        /\ \A r \in 1..Len(compiler.impls) :
               \A j \in 1..Len(compiler.impls[r].methods) :
                   LandsOnOpcode(compiler.impls[r].methods[j].location)

\* C6, reached: a program compiled with conditional jumps, loops with break, skipped
\* function bodies and method tables, and run to its Halt.
C6_Compiled ==
    /\ status = "halted"
    /\ \E i \in 1..Len(code) : code[i].op = "Jz"
    /\ \E i \in 1..Len(code) : code[i].op = "Impl"
    /\ \E i \in 1..Len(code) : code[i].op = "Jmp" /\ code[i].x > i
    /\ \E i \in 1..Len(code) : code[i].op = "Jmp" /\ code[i].x < i - 1

\* C7: after any calls of add_string the pool holds no string twice; every index a
\* call returned still refers to the string of that call; a call returns the index
\* the first call with that string returned, which was the end of the pool then; and
\* a call with a string already in the pool left the pool as it was.
C7_StringPool ==
    /\ \A i, j \in 1..Len(compiler.sp) : compiler.sp[i] = compiler.sp[j] => i = j
    /\ \A k \in 1..Len(hist) :
           /\ hist[k].idx < Len(compiler.sp)
           /\ compiler.sp[hist[k].idx + 1] = hist[k].s
           /\ (\E i \in 1..Len(hist[k].before) : hist[k].before[i] = hist[k].s)
                  => hist[k].after = hist[k].before
           /\ (\A j \in 1..(k - 1) : hist[j].s # hist[k].s)
                  => /\ hist[k].idx = Len(hist[k].before)
                     /\ hist[k].after = Append(hist[k].before, hist[k].s)
           /\ \A j \in 1..(k - 1) : hist[j].s = hist[k].s => hist[j].idx = hist[k].idx

\* C7, reached: a string was added, then others, then the first one again.
C7_AddedAgain ==
    /\ status = "pool"
    /\ Len(hist) >= 3
    /\ hist[Len(hist)].s = hist[1].s
    /\ hist[2].s # hist[1].s
    /\ Len(compiler.sp) >= 2

\* The opcodes whose handler pushes before it pops anything.
Pushing == { "Const", "Str", "False", "Null", "Deepget", "DeepgetPtr", "Struct" }

\* C8: the value stack never holds more than STACK_MIN objects, and a handler that
\* pushes when it holds STACK_MIN ends the run with 'stack overflow', the stack being
\* left as it was.
C8_StackWithinCapacity ==
    [][/\ Len(stack) <= STACK_MIN
       /\ Len(stack') <= STACK_MIN
       /\ (/\ status = "running"
           /\ Len(stack) = STACK_MIN
           /\ ip \in 0..(Len(code) - 1)
           /\ code[ip + 1].op \in Pushing)
          => (status' = "stack overflow" /\ stack' = stack)]_vars

\* C8, reached: a push met the full stack.
C8_Overflowed == status = "stack overflow" /\ Len(stack) = STACK_MIN

\* The frame, among those of frame_ptrs, whose `&x` produced stack address a.
BornFrame(a) ==
    { d \in 1..Len(hist.calls) : hist.calls[d].serial = hist.born[a].serial }

\* C9: when the pointer on the stack was produced by `&x` in a frame that is still
\* active, Deref pushes the value x's slot holds, and DerefSet stores the value in
\* x's slot and changes no other slot.
C9_PointerToLocal ==
    [][/\ (/\ Fetch("Deref")
           /\ stack # << >>
           /\ Last(stack).t = "Ptr"
           /\ Last(stack).v[1] = "slot"
           /\ Last(stack).v[2] \in DOMAIN hist.born
           /\ BornFrame(Last(stack).v[2]) # {})
          => /\ status' = "running"
             /\ \A d \in BornFrame(Last(stack).v[2]) :
                    Last(stack).v[2] =
                        frame_ptrs[d].location + hist.born[Last(stack).v[2]].idx
             /\ Last(stack).v[2] + 1 < Len(stack)
             /\ stack' = Append(DropLast(stack, 1), stack[Last(stack).v[2] + 1])
       /\ (/\ Fetch("DerefSet")
           /\ Len(stack) >= 2
           /\ stack[Len(stack) - 1].t = "Ptr"
           /\ stack[Len(stack) - 1].v[1] = "slot"
           /\ stack[Len(stack) - 1].v[2] \in DOMAIN hist.born
           /\ BornFrame(stack[Len(stack) - 1].v[2]) # {})
          => /\ status' = "running"
             /\ stack[Len(stack) - 1].v[2] + 2 < Len(stack)
             /\ stack' = [DropLast(stack, 2) EXCEPT
                             ![stack[Len(stack) - 1].v[2] + 1] = Last(stack)]]_vars

\* The name at index i of the pool, the two words of the CallMethod record at ip, the
\* receiver under the arguments, and the method the compiler wrote for a struct.
MethodNameIdx == read_u32(cur).value
ArgCount == read_u32(read_u32(cur).m).value
Receiver == stack[Len(stack) - ArgCount]
MethodsOf(name) ==
    UNION { { compiler.impls[r].methods[j] : j \in 1..Len(compiler.impls[r].methods) } :
              r \in { q \in 1..Len(compiler.impls) : compiler.impls[q].name = name } }
MethodsNamed(struct, name) == { f \in MethodsOf(struct) : f.name = name }

\* C10: CallMethod on a receiver of struct S with method name m and k arguments goes
\* to the first instruction of the method the impl of S holds under m, when k is that
\* method's parameter count minus one, with a frame whose slot 0 is the receiver and
\* whose slots 1..k are the arguments; with another k, or without such a method, the
\* run ends; and the Ret that takes off this frame goes to the element after the
\* CallMethod record.
C10_MethodDispatch ==
    [][/\ (/\ Fetch("CallMethod")
           /\ ArgCount < Len(stack)
           /\ Receiver.t = "Struct")
          => IF \E f \in MethodsNamed(heap[Receiver.v].name, compiler.sp[MethodNameIdx + 1]) :
                    ArgCount = f.paramcount - 1
             THEN /\ status' = "running"
                  /\ \E f \in MethodsNamed(heap[Receiver.v].name,
                                           compiler.sp[MethodNameIdx + 1]) :
                         /\ ip' = f.location + 1
                         /\ frame_ptrs' = Append(frame_ptrs,
                                BytecodePtr(ip + 8, Len(stack) - f.paramcount))
                  /\ stack' = stack
                  /\ stack'[Last(frame_ptrs').location + 1] = Receiver
                  /\ \A i \in 1..ArgCount :
                         stack'[Last(frame_ptrs').location + 1 + i] =
                             stack[Len(stack) - ArgCount + i]
             ELSE status' # "running"
       /\ (/\ Fetch("Ret")
           /\ hist.calls # << >>
           /\ code[Last(hist.calls).site + 1].op = "CallMethod"
           /\ status' = "running")
          => ip' = Last(hist.calls).site + 9]_vars

\* C10, reached: get() was called on a T while S has a get() too, T's get returned
\* its 77, and the VM is at the element after the CallMethod record.
C10_ReturnedFromMethod ==
    /\ status = "running"
    /\ hist.op = "Ret"
    /\ code[hist.popped.site + 1].op = "CallMethod"
    /\ ip = hist.popped.site + 9
    /\ stack # << >>
    /\ Last(stack) = Number(77)
    /\ Cardinality({ r \in 1..Len(compiler.impls) :
                       \E j \in 1..Len(compiler.impls[r].methods) :
                           compiler.impls[r].methods[j].name = "get" }) = 2
\* The loop a break or continue belongs to: the one whose statement starts at first.
LoopOf(first) == CHOOSE l \in 1..Len(compiler.loops) : compiler.loops[l].first = first

\* The break (kind "break") and continue (kind "continue") statements of the program.
JumpsOf(kind) == { j \in 1..Len(compiler.jumps) : compiler.jumps[j].kind = kind }

\* A turn of the loop was run by the machine (the program is compiled).
Turn == status = "running" /\ vars' # vars

\* C11: the Jmp of a break lands on the exit of the innermost loop around it (for a
\* while, the first instruction after the loop; for a for, the Pop(1) of the loop
\* variable, which the first instruction after the loop follows), and when control is
\* past the loop the stack is as long as it was when the loop statement started.
C11_BreakLeavesLoop ==
    [][\A j \in JumpsOf("break") :
         LET b == compiler.jumps[j]
             l == LoopOf(b.loop)
             L == compiler.loops[l]
             key == << Len(frame_ptrs), l >>
         IN  /\ (Turn /\ ip = b.jmp) =>
                   /\ status' = "running"
                   /\ ip' = L.exit
                   /\ key \in DOMAIN hist.loop
                   /\ L.kind = "while" => Len(stack') = hist.loop[key].len
             /\ (Turn /\ L.kind = "for" /\ ip = L.exit /\ hist.from = b.jmp) =>
                   /\ status' = "running"
                   /\ ip' = L.after
                   /\ key \in DOMAIN hist.loop
                   /\ Len(stack') = hist.loop[key].len]_vars

\* C11, reached: a break that first popped the locals of its blocks has just left a
\* loop that lies inside another loop, and the run is in the outer loop.
C11_BrokeOutOfInnerLoop ==
    /\ status = "running"
    /\ \E j \in JumpsOf("break") :
          LET b == compiler.jumps[j]
              l == LoopOf(b.loop)
          IN  /\ hist.from = b.jmp
              /\ b.first < b.jmp
              /\ code[b.first + 1].op = "Pop" /\ code[b.first + 1].x > 0
              /\ ip = compiler.loops[l].exit
              /\ \E o \in 1..Len(compiler.loops) :
                    /\ o # l
                    /\ InLoop(o, compiler.loops[l].first)
                    /\ << Len(frame_ptrs), o >> \in DOMAIN hist.loop

\* C12: the Jmp of a continue goes to the condition of the innermost while around it,
\* or to the advancement of the innermost for, after which the condition comes; and
\* whenever the condition is evaluated again after a continue, the stack is as long as
\* it was when the condition was first evaluated.
C12_ContinueRepeatsLoop ==
    [][\A j \in JumpsOf("continue") :
         LET c == compiler.jumps[j]
             l == LoopOf(c.loop)
             L == compiler.loops[l]
             key == << Len(frame_ptrs), l >>
         IN  /\ (Turn /\ ip = c.jmp) =>
                   /\ status' = "running"
                   /\ ip' = L.next
                   /\ key \in DOMAIN hist.loop
             /\ (Turn /\ key \in DOMAIN hist.loop /\ hist.loop[key].cont) =>
                   /\ ip = L.cond => Len(stack) = hist.loop[key].cond_len
                   /\ key \in DOMAIN hist'.loop
                   /\ hist.loop[key].phase = "adv" =>
                         hist'.loop[key].phase \in {"adv", "cond"}]_vars

\* C12, reached: the condition of a for is about to be evaluated again after a
\* continue that first popped the locals of its blocks.
C12_ContinuedFor ==
    /\ status = "running"
    /\ \E j \in JumpsOf("continue") :
          LET c == compiler.jumps[j]
              l == LoopOf(c.loop)
              key == << Len(frame_ptrs), l >>
          IN  /\ compiler.loops[l].kind = "for"
              /\ code[c.first + 1].op = "Pop" /\ code[c.first + 1].x > 0
              /\ ip = compiler.loops[l].cond
              /\ key \in DOMAIN hist.loop
              /\ hist.loop[key].cont

\* The for loops of the program.
ForLoops == { l \in 1..Len(compiler.loops) : compiler.loops[l].kind = "for" }

\* The order in which control may pass from one part of a for loop to another.
ForOrder ==
    { << "init", "cond" >>, << "cond", "body" >>, << "body", "adv" >>,
      << "adv", "cond" >> }

\* C13: a for loop runs its initializer once, then condition, body, advancement in
\* that order; control leaves the statement only through its final Pop(1), reached
\* from the exit test or from a break of this loop (or through a return), and after
\* that Pop(1) the stack is as long as it was before the statement.
C13_ForLoop ==
    [][\A l \in ForLoops :
         LET L == compiler.loops[l]
             key == << Len(frame_ptrs), l >>
             here == hist.loop[key]
         IN  (Turn /\ key \in DOMAIN hist.loop) =>
               /\ here.inits = 1
               /\ key \in DOMAIN hist'.loop =>
                     \/ hist'.loop[key].phase = here.phase
                     \/ << here.phase, hist'.loop[key].phase >> \in ForOrder
               /\ ip = L.exit =>
                     /\ status' = "running"
                     /\ ip' = L.after
                     /\ Len(stack') = here.len
                     /\ \/ hist.from = L.jz
                        \/ \E j \in JumpsOf("break") :
                              /\ compiler.jumps[j].loop = L.first
                              /\ compiler.jumps[j].jmp = hist.from
               /\ (status' = "running" /\ key \notin DOMAIN hist'.loop) =>
                     \/ ip = L.exit
                     \/ Len(frame_ptrs') < Len(frame_ptrs)]_vars

\* C14: when a logical expression whose operands are booleans ends, the stack is one
\* longer than when it started and its top is `a and b` for &&, `a or b` for ||; no
\* code of the right operand ran when the left operand of && was false or the left
\* operand of || was true.
C14_LogicalOperators ==
    [][\A g \in 1..Len(compiler.logics) :
         LET G == compiler.logics[g]
             key == << Len(frame_ptrs), g >>
             here == hist.logic[key]
             and == G.op = "DoubleAmpersand"
             short == IF and THEN here.a = Bool(FALSE) ELSE here.a = Bool(TRUE)
         IN  (/\ Turn /\ status' = "running"
              /\ key \in DOMAIN hist.logic
              /\ Len(frame_ptrs') = Len(frame_ptrs)
              /\ ip' = G.end
              /\ here.a.t = "Bool"
              /\ here.ran => here.b.t = "Bool") =>
               /\ Len(stack') = here.len + 1
               /\ here.ran = ~short
               /\ Last(stack') = IF short THEN here.a
                                 ELSE IF and THEN Bool(here.a.v /\ here.b.v)
                                 ELSE Bool(here.a.v \/ here.b.v)]_vars

\* C14, reached: an && whose left operand was false has just ended inside the right
\* operand of another && whose left operand was true, and no code of its own right
\* operand ran.
C14_ShortCircuited ==
    /\ status = "running"
    /\ \E g \in 1..Len(compiler.logics), o \in 1..Len(compiler.logics) :
          LET G == compiler.logics[g]
              O == compiler.logics[o]
              key == << Len(frame_ptrs), o >>
          IN  /\ G.op = "DoubleAmpersand" /\ O.op = "DoubleAmpersand"
              /\ O.rhs_first <= G.first /\ G.end - 1 <= O.rhs_last
              /\ ip = G.end
              /\ hist.op = "False"
              /\ hist.from = G.end - 1
              /\ key \in DOMAIN hist.logic
              /\ hist.logic[key].a = Bool(TRUE)
              /\ hist.logic[key].ran

\* What the operator of a compound assignment makes of a and b.
Specialized(op, a, b) ==
    CASE op = "Add" -> Object_add(a, b)
      [] op = "Sub" -> Object_sub(a, b)
      [] op = "Mul" -> Object_mul(a, b)
      [] op = "Div" -> Object_div(a, b)
      [] op = "Mod" -> Object_rem(a, b)
      [] op = "BitAnd" -> Object_bitand(a, b)
      [] op = "BitOr" -> Object_bitor(a, b)
      [] op = "BitXor" -> Object_bitxor(a, b)
      [] op = "BitShl" -> Object_shl("checked", a, b)
      [] op = "BitShr" -> Object_shr("checked", a, b)

\* C15: a compound assignment whose target (an existing local, what a pointer in a
\* local points to, a member of a struct, an element of a vec) held the number a when
\* it started, and whose right-hand side left the number b, runs its operator and its
\* store without an error, and when it ends the target holds `a op b` and the stack is
\* as long as when it started.
C15_CompoundAssignment ==
    [][\A c \in 1..Len(compiler.compounds) :
         LET C == compiler.compounds[c]
             key == << Len(frame_ptrs), c >>
             here == hist.compound[key]
         IN  (/\ Turn
              /\ key \in DOMAIN hist.compound
              /\ ip >= C.opidx
              /\ here.a.t = "Number" /\ here.b.t = "Number") =>
               /\ status' = "running"
               /\ Len(frame_ptrs') = Len(frame_ptrs)
               /\ ip' = C.end =>
                     /\ Len(stack') = here.len
                     /\ TargetValue(C.target, stack', heap', Last(frame_ptrs').location)
                          = Specialized(code[C.opidx + 1].op, here.a, here.b)]_vars

\* The names of the Fn statements that started compiling before log entry i, and the
\* latest of them named `name`.
Started(i) == { compiler.log[j].name : j \in { k \in 1..(i - 1) : compiler.log[k].e = "fn" } }
LatestFn(i, name) ==
    CHOOSE j \in 1..(i - 1) :
        /\ compiler.log[j].e = "fn" /\ compiler.log[j].name = name
        /\ \A k \in (j + 1)..(i - 1) :
               ~(compiler.log[k].e = "fn" /\ compiler.log[k].name = name)
\* compile returned the error msg at log entry i: nothing was compiled after it and
\* the machine never ran.
Rejected(i, msg) ==
    /\ compiler.err = msg /\ status = msg
    /\ i = Len(compiler.log)
    /\ ip = 0 /\ stack = << >> /\ frame_ptrs = << >> /\ out = << >>

\* C16: a direct call f(args) fails with "function 'f' is not defined" exactly when no
\* Fn statement named f started compiling before it, and with "function 'f' takes N
\* arguments" exactly when f is known and the number of arguments differs from its
\* parameter count N; in both failures compile returns the error and no bytecode runs.
C16_DirectCallChecks ==
    status # "compiling" =>
        \A i \in 1..Len(compiler.log) :
            compiler.log[i].e = "call" =>
                LET c == compiler.log[i]
                    known == c.name \in Started(i)
                IN  /\ (c.check = "undefined") <=> ~known
                    /\ (c.check = "arity") <=>
                           (known /\ c.nargs # compiler.log[LatestFn(i, c.name)].paramcount)
                    /\ c.check = "undefined" => Rejected(i, NotDefined(c.name))
                    /\ c.check = "arity" =>
                           Rejected(i, TakesArguments(c.name,
                                        compiler.log[LatestFn(i, c.name)].paramcount))
\* A call of a function declared later in the file was rejected, and one of a known
\* function with the wrong number of arguments would be too.
C16_CallBeforeDeclaration ==
    /\ status = "compiler: function 'later' is not defined"
    /\ compiler.log[Len(compiler.log)].e = "call"
    /\ "main" \in Started(Len(compiler.log))

\* C17: break and continue are rejected, with "break outside a loop" and "continue
\* outside a loop", exactly when no while or for loop is being compiled; once a loop
\* has compiled, loop_starts, loop_depths and breaks hold what they held before it.
C17_JumpsNeedLoop ==
    status # "compiling" =>
        /\ \A i \in 1..Len(compiler.log) :
               compiler.log[i].e = "jump" =>
                   /\ (compiler.log[i].check = "outside") <=> (compiler.log[i].open = 0)
                   /\ compiler.log[i].check = "outside" =>
                          Rejected(i, IF compiler.log[i].kind = "break"
                                      THEN "compiler: break outside a loop"
                                      ELSE "compiler: continue outside a loop")
        /\ \A l \in 1..Len(compiler.loops) : compiler.loops[l].now = compiler.loops[l].was
\* A break that follows a loop holding a break of its own was rejected.
C17_BreakAfterLoop ==
    /\ status = "compiler: break outside a loop"
    /\ compiler.loops # << >>
    /\ \E i \in 1..Len(compiler.log) :
           /\ compiler.log[i].e = "jump" /\ compiler.log[i].check = "passed"
           /\ \A j \in i..Len(compiler.log) : compiler.log[j].e # "fn"

\* Whether a Fn statement named main started compiling, and the last of them.
MainDeclared == "main" \in Started(Len(compiler.log) + 1)
LastMain == compiler.log[LatestFn(Len(compiler.log) + 1, "main")]

\* C18: compile succeeds only if a function named main was declared; the bytecode then
\* ends with Call(0), Jmp(main.location), Pop(1), Halt and holds no other Halt; when
\* the declarations compile and none is named main, compile fails with "main fn was
\* not defined".
C18_MainTrailer ==
    status # "compiling" =>
        LET n == Len(code)
        IN  /\ ok(compiler) =>
                   /\ MainDeclared
                   /\ n >= 4
                   /\ code[n - 3] = Op("Call", 0)
                   /\ code[n - 2] = Op("Jmp", LastMain.at)
                   /\ code[LastMain.at + 1].op = "Jmp"
                   /\ code[n - 1] = Op("Pop", 1)
                   /\ code[n] = Op0("Halt")
                   /\ \A i \in 1..(n - 1) : code[i].op # "Halt"
            /\ ~MainDeclared =>
                   /\ ~ok(compiler)
                   /\ status = compiler.err
                   /\ ip = 0 /\ stack = << >> /\ out = << >>
                   /\ ok(codegen_all(new, ast, TRUE)) =>
                          compiler.err = "compiler: main fn was not defined"
\* A file that declares main twice compiled: the trailer jumps to the second one.
C18_SecondMainCalled ==
    /\ status = "running"
    /\ ip = 0
    /\ \E i \in 1..Len(compiler.log) :
           /\ compiler.log[i].e = "fn" /\ compiler.log[i].name = "main"
           /\ compiler.log[i].at < LastMain.at

\* The instruction the machine is about to run, and its two operands when the stack
\* holds them.
Insn == IF ip \in 0..(Len(code) - 1) THEN code[ip + 1].op ELSE "none"
OperandA == stack[Len(stack) - 1]
OperandB == stack[Len(stack)]
Stopped == status \notin {"compiling", "running"}

\* The number an arithmetic instruction leaves for the numbers a and b (r is what it
\* left: a quotient or a remainder is told by the equation it solves).
ArithmeticResult(op, a, b, r) ==
    CASE op = "Add" -> r = a + b
      [] op = "Sub" -> r = a - b
      [] op = "Mul" -> r = a * b
      [] op = "Div" -> r * b = a
      [] op = "Mod" -> /\ \E q \in -(a * a + 1)..(a * a + 1) : q * b + r = a
                       /\ r * r < b * b
                       /\ r * a >= 0
ArithmeticSign(op) ==
    CASE op = "Add" -> "+" [] op = "Sub" -> "-" [] op = "Mul" -> "*"
      [] op = "Div" -> "/" [] op = "Mod" -> "%"

\* C19: Add, Sub, Mul, Div and Mod on two Numbers pop both and push one Number, the
\* result; on any other pair of operands the machine stops with "only numbers can be
\* <op>", and a machine that stopped runs nothing more.
C19_Arithmetic ==
    [][/\ (/\ Turn
           /\ Insn \in {"Add", "Sub", "Mul", "Div", "Mod"}
           /\ Len(stack) >= 2) =>
              IF OperandA.t = "Number" /\ OperandB.t = "Number"
              THEN \/ status' = Unmodelled.v
                   \/ /\ status' = "running"
                      /\ ip' = ip + 1
                      /\ Len(stack') = Len(stack) - 1
                      /\ SubSeq(stack', 1, Len(stack) - 2) = SubSeq(stack, 1, Len(stack) - 2)
                      /\ Last(stack').t = "Number"
                      /\ ArithmeticResult(Insn, OperandA.v, OperandB.v, Last(stack').v)
              ELSE status' = "vm: only numbers can be " \o ArithmeticSign(Insn)
       /\ Stopped => vars' = vars]_vars
\* The machine stopped at a Mod whose left operand was a vec.
C19_VecModNumber ==
    /\ status = "vm: only numbers can be %"
    /\ Insn = "Mod"

\* C20: Lt and Gt stop the machine with "only numbers can be: <, >, <=, >=" whenever
\* an operand is not a Number, two operands of one other kind included, and push a
\* Bool, the order of the two, only for two Numbers.
C20_Relational ==
    [][(/\ Turn
        /\ Insn \in {"Lt", "Gt"}
        /\ Len(stack) >= 2) =>
           IF OperandA.t = "Number" /\ OperandB.t = "Number"
           THEN /\ status' = "running"
                /\ stack' = Append(SubSeq(stack, 1, Len(stack) - 2),
                                    Bool(IF Insn = "Lt" THEN OperandA.v < OperandB.v
                                         ELSE OperandA.v > OperandB.v))
           ELSE status' = "vm: only numbers can be: <, >, <=, >="]_vars

\* The immediate of the instruction the machine is about to run.
InsnArg == code[ip + 1].x
\* The members struct S declares, by the blueprint the machine holds.
Declared(name) ==
    IF Has(blueprints, name)
    THEN { blueprints[name].members[i] : i \in 1..Len(blueprints[name].members) }
    ELSE {}

\* C21: Getattr of a name the struct value does not hold stops the machine with
\* "struct 'S' has no member 'q'" (and yields the member otherwise); Getattr on a value
\* that is no struct, and Setattr of a name the struct does not declare, stop the
\* machine with an error too instead of changing the stack or the struct.
C21_MemberErrors ==
    [][/\ (Turn /\ Insn = "Getattr" /\ Len(stack) >= 1) =>
              IF OperandB.t # "Struct" THEN status' # "running"
              ELSE IF Has(heap[OperandB.v].members, InsnArg)
              THEN /\ status' = "running"
                   /\ stack' = Append(SubSeq(stack, 1, Len(stack) - 1),
                                       heap[OperandB.v].members[InsnArg])
              ELSE status' = "vm: struct '" \o heap[OperandB.v].name \o
                             "' has no member '" \o InsnArg \o "'"
       /\ (/\ Turn /\ Insn = "Setattr" /\ Len(stack) >= 2
           /\ OperandA.t = "Struct"
           /\ InsnArg \notin Declared(heap[OperandA.v].name)) =>
              status' # "running"]_vars

\* C22: CallMethod stops the machine when the value nargs deep is no struct, when the
\* receiver's blueprint has no method of the name, and when nargs is not the method's
\* parameter count minus one; then no frame is pushed and control stays where it was.
\* Otherwise it pushes one frame and enters the method.
C22_CallMethodErrors ==
    [][(/\ Turn /\ Insn = "CallMethod"
        /\ ArgCount < Len(stack)) =>
           LET named == IF Receiver.t = "Struct"
                        THEN MethodsNamed(heap[Receiver.v].name,
                                          compiler.sp[MethodNameIdx + 1])
                        ELSE {}
           IN  IF \A f \in named : ArgCount # f.paramcount - 1
               THEN /\ status' # "running"
                    /\ frame_ptrs' = frame_ptrs
                    /\ ip' = ip
                    /\ stack' = stack
               ELSE /\ status' = "running"
                    /\ Len(frame_ptrs') = Len(frame_ptrs) + 1
                    /\ \E f \in named : ip' = f.location + 1]_vars
\* A method call on a number stopped the machine.
C22_MethodOnNumber ==
    /\ status = "vm: tried to call a method on a non-struct"
    /\ Insn = "CallMethod"
    /\ ArgCount < Len(stack)
    /\ Receiver.t = "Number"
    /\ frame_ptrs = << BytecodePtr(Len(code) - 3, 0) >>

\* The three operands of a VecSet: the vec, the index and the value.
OperandC == stack[Len(stack) - 2]

\* C23: when the Vec of a literal [e0, ..., e(n-1)] has run, the stack is one longer
\* than when the literal started and its top is a new vec whose element i is the value
\* the code of ei left, for every i; and an element store v[i] = x, for an index the
\* vec has, makes element i of that vec x and changes nothing else on the heap.
C23_VecLiteralAndStore ==
    [][/\ \A g \in 1..Len(compiler.vecs) :
             LET G == compiler.vecs[g]
                 key == << Len(frame_ptrs), g >>
                 here == hist.vec[key]
             IN  (/\ Turn /\ status' = "running"
                  /\ ip = G.op
                  /\ key \in DOMAIN hist.vec) =>
                    /\ DOMAIN here.vals = 1..Len(G.ends)
                    /\ Len(stack') = here.len + 1
                    /\ SubSeq(stack', 1, here.len) = SubSeq(stack, 1, here.len)
                    /\ Last(stack') = Vec(Len(heap) + 1)
                    /\ Len(heap') = Len(heap) + 1
                    /\ heap'[Len(heap) + 1].elems = [i \in 1..Len(G.ends) |-> here.vals[i]]
       /\ (/\ Turn /\ Insn = "VecSet" /\ Len(stack) >= 3
           /\ OperandC.t = "Vec" /\ OperandA.t = "Number"
           /\ OperandA.v \in 0..(Len(heap[OperandC.v].elems) - 1)) =>
              /\ status' = "running"
              /\ stack' = SubSeq(stack, 1, Len(stack) - 3)
              /\ heap' = [heap EXCEPT ![OperandC.v].elems[OperandA.v + 1] = OperandB]]_vars
\* A literal of four elements, one of them a call and one a vec, has just become a vec
\* whose elements differ.
C23_BuiltVec ==
    /\ status = "running"
    /\ hist.op = "Vec"
    /\ stack # << >>
    /\ Last(stack).t = "Vec"
    /\ Len(heap[Last(stack).v].elems) = 4
    /\ heap[Last(stack).v].elems[3].t = "Vec"
    /\ heap[Last(stack).v].elems[1] # heap[Last(stack).v].elems[2]

\* The slot a Deepget or Deepset at ip addresses.
Slot == Last(frame_ptrs).location + InsnArg

\* C24: reading a local that holds a struct or a vec, on a stack with room for one more
\* value, pushes the same reference and makes no new heap cell; a member store changes the one cell the reference names, in
\* place, so every other reference to it reads the new value; a store to a local
\* changes that slot only.  Seen from outside: Sharing(n) prints the stored values
\* through the other reference of every struct and vec (a second local, an argument, a
\* method receiver) and the old values of every number and bool.
C24_SharedNotCopied ==
    [][/\ (/\ Turn /\ Insn = "Deepget" /\ frame_ptrs # << >>
           /\ Slot < Len(stack) /\ Len(stack) < STACK_MIN) =>
              /\ status' = "running"
              /\ stack' = Append(stack, stack[Slot + 1])
              /\ heap' = heap
       /\ (/\ Turn /\ Insn = "Setattr" /\ Len(stack) >= 2
           /\ OperandA.t = "Struct") =>
              /\ status' = "running"
              /\ stack' = SubSeq(stack, 1, Len(stack) - 1)
              /\ Len(heap') = Len(heap)
              /\ \A r \in 1..Len(heap) : r # OperandA.v => heap'[r] = heap[r]
              /\ heap'[OperandA.v].members[InsnArg] = OperandB
              /\ \A k \in DOMAIN heap[OperandA.v].members :
                     k # InsnArg =>
                         heap'[OperandA.v].members[k] = heap[OperandA.v].members[k]
       /\ (/\ Turn /\ Insn = "Deepset" /\ frame_ptrs # << >>
           /\ Slot < Len(stack) - 1) =>
              /\ status' = "running"
              /\ heap' = heap
              /\ \A i \in 1..(Len(stack) - 1) :
                     stack'[i] = IF i = Slot + 1 THEN Last(stack) ELSE stack[i]
       /\ \A n \in 0..MaxN :
              (ast = Sharing(n) /\ status' = "halted") => out' = SharingPrints(n)]_vars
\* Sharing(n) ran to its end, having stored through the second reference of a struct.
C24_SharingHalted ==
    /\ status = "halted"
    /\ \E n \in 0..MaxN : ast = Sharing(n)
    /\ Len(out) = 10
    /\ out[5] = Number(11)

\* The struct declarations logged before entry i, and the last of them named `name`.
StructsBefore(i) ==
    { compiler.log[j].name : j \in { k \in 1..(i - 1) : compiler.log[k].e = "struct" } }
LatestStruct(i, name) ==
    CHOOSE j \in 1..(i - 1) :
        /\ compiler.log[j].e = "struct" /\ compiler.log[j].name = name
        /\ \A k \in (j + 1)..(i - 1) :
               ~(compiler.log[k].e = "struct" /\ compiler.log[k].name = name)
\* The initializers of literal G name different members.
DistinctMembers(G) ==
    \A i, j \in 1..Len(G.inits) : G.inits[i].member = G.inits[j].member => i = j

\* C25, compile time: a struct literal S{...} is rejected with "struct 'S' is not
\* defined" exactly when no struct S was declared before it, and with "struct 'S' has N
\* members" exactly when S was declared with N members and the literal has another
\* number of initializers.
LiteralChecks ==
    status # "compiling" =>
        \A i \in 1..Len(compiler.log) :
            compiler.log[i].e = "literal" =>
                LET c == compiler.log[i]
                    known == c.name \in StructsBefore(i)
                IN  /\ (c.check = "undefined") <=> ~known
                    /\ (c.check = "count") <=>
                           (known /\ c.count # compiler.log[LatestStruct(i, c.name)].count)
                    /\ c.check = "undefined" => Rejected(i, StructNotDefined(c.name))
                    /\ c.check = "count" =>
                           Rejected(i, StructHasMembers(c.name,
                                        compiler.log[LatestStruct(i, c.name)].count))

Bit(x, k) == (x \div Pow2(k)) % 2
Clamped(a) == IF a.v < 0 THEN 0 ELSE a.v
\* The bits the integers of the model have.
BitPositions == 0..30
\* Whether r is what the bitwise instruction op makes of the clamped operands x and y
\* over 64 bits (for a shift, y is the amount: 64 or more leaves no bit).
BitwiseResult(op, x, y, r) ==
    CASE op = "BitAnd" -> \A k \in BitPositions : Bit(r, k) = Bit(x, k) * Bit(y, k)
      [] op = "BitOr" ->
             \A k \in BitPositions :
                 Bit(r, k) = IF Bit(x, k) + Bit(y, k) > 0 THEN 1 ELSE 0
      [] op = "BitXor" -> \A k \in BitPositions : Bit(r, k) = (Bit(x, k) + Bit(y, k)) % 2
      [] op = "BitShl" -> IF y >= 64 THEN r = 0 ELSE r = x * Pow2(y)
      [] op = "BitShr" -> IF y >= 31 THEN r = 0 ELSE r = x \div Pow2(y)

\* C26: a bitwise instruction on Numbers never stops the machine; And, Or, Xor, Shl and
\* Shr pop two and push the Number the operation makes, over 64 bits, of the operands
\* clamped to [0, 2^64) (a negative operand counts as 0), and BitNot pushes
\* 2^64 - 1 - x for the clamped operand x.
C26_Bitwise ==
    [][/\ (/\ Turn
           /\ Insn \in {"BitAnd", "BitOr", "BitXor", "BitShl", "BitShr"}
           /\ Len(stack) >= 2
           /\ OperandA.t = "Number" /\ OperandB.t = "Number"
           /\ Held(OperandA) /\ Held(OperandB)
           /\ status' # Unmodelled.v) =>
              /\ status' = "running"
              /\ Len(stack') = Len(stack) - 1
              /\ Last(stack').t = "Number" /\ Held(Last(stack'))
              /\ Last(stack').v >= 0
              /\ BitwiseResult(Insn, Clamped(OperandA), Clamped(OperandB), Last(stack').v)
       /\ (/\ Turn /\ Insn = "BitNot" /\ Len(stack) >= 1
           /\ OperandB.t = "Number" /\ Held(OperandB)) =>
              /\ status' = "running"
              /\ stack' = Append(SubSeq(stack, 1, Len(stack) - 1),
                                  Wide(64, 0 - (Clamped(OperandB) + 1)))]_vars

(***************************************************************************)
(* C27: locals against the value stack at statement boundaries             *)
(***************************************************************************)
RECURSIVE BodiesAreBlocks(_)
\* Every if, while and for body of the statement s is a block.
BodiesAreBlocks(s) ==
    CASE s.k = "Fn" -> BodiesAreBlocks(s.body)
      [] s.k = "Impl" -> \A i \in 1..Len(s.methods) : BodiesAreBlocks(s.methods[i])
      [] s.k = "Block" -> \A i \in 1..Len(s.body) : BodiesAreBlocks(s.body[i])
      [] s.k = "If" -> /\ s.if_branch.k = "Block"
                       /\ s.else_branch.k \in {"Block", "Dummy", "If"}
                       /\ BodiesAreBlocks(s.if_branch)
                       /\ BodiesAreBlocks(s.else_branch)
      [] s.k \in {"While", "For"} -> s.body.k = "Block" /\ BodiesAreBlocks(s.body)
      [] OTHER -> TRUE

\* Every name that is read was in locals when it was read.
AssignedBeforeRead ==
    \A i \in 1..Len(compiler.reads) :
        \E j \in 1..Len(compiler.reads[i].locals) :
            compiler.reads[i].locals[j] = compiler.reads[i].name

Scoped ==
    /\ \A i \in 1..Len(ast) : BodiesAreBlocks(ast[i])
    /\ AssignedBeforeRead

\* The statements of function bodies whose code begins at the element at.
StatementsAt(at) ==
    { i \in 1..Len(compiler.stmts) :
        compiler.stmts[i].pops # <<>> /\ compiler.stmts[i].at = at }

\* C27: in a program whose variables are assigned before they are read and whose
\* if, while and for bodies are blocks, whenever the run is about to begin a statement
\* of a function body, the stack holds above the frame base exactly as many values as
\* locals held names when that statement was compiled.
C27_LocalsMatchStack ==
    (status = "running" /\ frame_ptrs # <<>> /\ Scoped)
        => \A i \in StatementsAt(ip) :
               Len(stack) - Last(frame_ptrs).location = Len(compiler.stmts[i].locals)

(***************************************************************************)
(* C28: pops[top] against the locals of the block being compiled           *)
(***************************************************************************)
\* The entries of locals that the innermost open block (or, directly in a function,
\* the function) owns at the compile step r: those pushed since it was entered.
Owned(r) == Len(r.locals) - Last(r.bases)

\* C28: after every compile step inside a function, the last entry of pops is the
\* number of entries of locals pushed since the block being compiled was entered.
C28_PopsCountsLocals ==
    status # "compiling"
        => \A i \in 1..Len(compiler.stmts) :
               compiler.stmts[i].pops # <<>>
                   => Last(compiler.stmts[i].pops) = Owned(compiler.stmts[i])

(***************************************************************************)
(* C29: plain assignment to a variable                                     *)
(***************************************************************************)
\* What the compiler emitted for the plain assignment A of the compiler c.
AssignmentEmitted(c, A) ==
    IF A.fresh
    THEN /\ A.end = A.value
         /\ A.was # <<>>
         /\ A.now = [A.was EXCEPT ![Len(A.was)] = @ + 1]
    ELSE /\ A.end = A.value + 1
         /\ c.code[A.end] = Op("Deepset", A.idx)
         /\ A.now = A.was

\* C29: an assignment `x = e` to a name that was not in locals emits the code of e and
\* nothing after it and adds one to the last entry of pops, and when the run leaves it
\* the stack is one longer than at its start with the new value at the slot
\* resolve_local returned; an assignment to a name that was in locals emits
\* Deepset(slot) after the code of e, leaves pops alone, and when the run leaves it the
\* stack is as long as at its start.
C29_PlainAssignment ==
    [][/\ (status = "compiling" /\ status' # "compiling")
            => \A a \in 1..Len(compiler'.assigns) :
                   AssignmentEmitted(compiler', compiler'.assigns[a])
       /\ \A key \in DOMAIN hist.assign :
            LET A == compiler.assigns[key[2]]
            IN  (/\ status' = "running"
                 /\ InAssign(key[2], ip)
                 /\ Len(frame_ptrs) = key[1]
                 /\ Len(frame_ptrs') = key[1]
                 /\ ip' = A.end)
                    => IF A.fresh
                       THEN /\ Len(stack') = hist.assign[key] + 1
                            /\ Len(stack') - 1 = Last(frame_ptrs').location + A.idx
                       ELSE Len(stack') = hist.assign[key]]_vars

(***************************************************************************)
(* C30: the frame of a direct call                                         *)
(***************************************************************************)
\* C30: a direct call with n arguments bases the callee's frame n slots below the top
\* of the stack, where the values of the arguments lie in source order; the callee's
\* Deepget(i) of a parameter it has not stored to pushes the value of argument i; and
\* no Deepget or Deepset of the callee changes a slot below the frame base.
C30_DirectCallFrame ==
    [][/\ \A key \in DOMAIN hist.args :
            LET G == compiler.callsites[key[2]]
                n == Len(G.ends)
            IN  (/\ status = "running" /\ status' = "running"
                 /\ Insn = "Call"
                 /\ G.op = ip
                 /\ key[1] = Len(frame_ptrs))
                    => /\ Len(frame_ptrs') = Len(frame_ptrs) + 1
                       /\ Last(frame_ptrs').location = Len(stack) - n
                       /\ Last(frame_ptrs').location = hist.args[key].len
                       /\ \A i \in 1..n :
                              stack[Len(stack) - n + i] = hist.args[key].vals[i]
       /\ \A key \in CallsOf(frame_ptrs) :
            LET n == Len(compiler.callsites[key[2]].ends)
                base == Last(frame_ptrs).location
            IN  /\ (/\ status = "running" /\ status' = "running"
                    /\ Insn = "Deepget"
                    /\ code[ip + 1].x < n
                    /\ code[ip + 1].x \notin hist.args[key].stored)
                       => stack' = Append(stack, hist.args[key].vals[code[ip + 1].x + 1])
                /\ (/\ status = "running" /\ status' = "running"
                    /\ Insn \in {"Deepget", "Deepset"})
                       => SubSeq(stack', 1, base) = SubSeq(stack, 1, base)]_vars

\* A callee with caller's slots below its frame has just read its second parameter,
\* which differs from its first.
C30_SecondParameterRead ==
    /\ status = "running"
    /\ hist.op = "Deepget"
    /\ code[hist.from + 1].x = 1
    /\ \E key \in CallsOf(frame_ptrs) :
         /\ Len(compiler.callsites[key[2]].ends) >= 2
         /\ Last(frame_ptrs).location > 0
         /\ 1 \notin hist.args[key].stored
         /\ Last(stack) = hist.args[key].vals[2]
         /\ hist.args[key].vals[1] # hist.args[key].vals[2]

(***************************************************************************)
(* C31: Deepset                                                            *)
(***************************************************************************)
\* C31: Deepset(k) with frame_base + k below the top slot puts the former top value
\* at frame_base + k, shortens the stack by one and changes no other slot; with
\* frame_base + k the top slot itself it only drops that slot, and the value is
\* stored nowhere.
C31_Deepset ==
    [][(/\ status = "running" /\ status' = "running"
        /\ Insn = "Deepset"
        /\ frame_ptrs # <<>>)
          => LET t == Last(frame_ptrs).location + InsnArg
             IN  /\ Len(stack') = Len(stack) - 1
                 /\ heap' = heap
                 /\ \A j \in 1..Len(stack') :
                        stack'[j] = IF j = t + 1 THEN Last(stack) ELSE stack[j]]_vars

\* A Deepset has just stored into a slot of its frame that still has another slot
\* above it.
C31_StoredBelowTop ==
    /\ status = "running"
    /\ hist.op = "Deepset"
    /\ frame_ptrs # <<>>
    /\ Last(frame_ptrs).location + code[hist.from + 1].x + 1 < Len(stack)
    /\ Len(stack) >= 2

(***************************************************************************)
(* C32: blueprints are registered before any body runs                     *)
(***************************************************************************)
\* The element i lies in the body of a function or method: after the Jmp its
\* declaration begins with, up to the element that Jmp was patched to.
InBody(i) ==
    \E k \in 1..Len(compiler.log) :
        /\ compiler.log[k].e = "fn"
        /\ compiler.log[k].at < i
        /\ i <= code[compiler.log[k].at + 1].x

\* Every method of the impl record r is in the blueprint of its struct, as compiled.
ImplRegistered(r) ==
    /\ Has(blueprints, r.name)
    /\ \A j \in 1..Len(r.methods) :
         /\ Has(blueprints[r.name].methods, r.methods[j].name)
         /\ \E f \in MethodsNamed(r.name, r.methods[j].name) :
                blueprints[r.name].methods[r.methods[j].name] = f

\* C32: whenever Struct(name) or CallMethod is about to execute inside a function or
\* method body, the blueprint of name is registered and every method of every impl
\* block of the program is registered in the blueprint of its struct.
C32_BlueprintsRegistered ==
    (status = "running" /\ Insn \in {"Struct", "CallMethod"} /\ InBody(ip))
        => /\ Insn = "Struct" => Has(blueprints, InsnArg)
           /\ \A r \in 1..Len(compiler.impls) : ImplRegistered(compiler.impls[r])

\* A method call is about to execute inside a body that lies before the Impl record
\* of the method it calls.
C32_MethodCallInBody ==
    /\ status = "running"
    /\ Insn = "CallMethod"
    /\ InBody(ip)
    /\ Len(frame_ptrs) >= 1
    /\ Receiver.t = "Struct"
    /\ \E f \in MethodsNamed(heap[Receiver.v].name, compiler.sp[MethodNameIdx + 1]) :
           f.location > ip

(***************************************************************************)
(* C33: the loop variable of a for                                         *)
(***************************************************************************)
\* The indices the name of the loop variable resolved to while the condition, the
\* advancement and the body of the for loop L were compiled.
LoopVariableResolved(L) ==
    { compiler.log[k].idx :
        k \in { j \in (L.from + 1)..L.to : /\ compiler.log[j].e = "resolve"
                                           /\ compiler.log[j].name = L.var } }

\* C33: in every for loop the compiler finished, each reference to the loop variable's
\* name in the condition, the advancement and the body resolved to the slot the
\* initializer's value is pushed at, and the entry of locals removed at the end of
\* the loop is the loop variable's.
C33_LoopVariable ==
    status # "compiling"
        => \A l \in ForLoops :
               LET L == compiler.loops[l]
               IN  /\ LoopVariableResolved(L) \subseteq { L.slot }
                   /\ L.removed = [name |-> L.var, idx |-> L.slot]

(***************************************************************************)
(* C34: the frame stack                                                    *)
(***************************************************************************)
\* The frame bases do not decrease from the bottom frame to the top frame and none
\* exceeds the length of the value stack.
FramesOrdered(frames, values) ==
    /\ \A i \in 1..(Len(frames) - 1) : frames[i].location <= frames[i + 1].location
    /\ \A i \in 1..Len(frames) : frames[i].location <= Len(values)

\* C34: Call and a successful CallMethod push exactly one frame, Ret pops exactly the
\* frame of the innermost call not yet returned and resumes after that call, no other
\* instruction touches the frame stack, after every step the frame bases are
\* non-decreasing and within the value stack, and the frame stack is empty when Halt
\* executes.
C34_FrameStack ==
    [][/\ (Turn /\ status' = "running")
            => /\ FramesOrdered(frame_ptrs', stack')
               /\ Len(hist'.calls) = Len(frame_ptrs')
               /\ IF Insn \in {"Call", "CallMethod"}
                  THEN /\ Len(frame_ptrs') = Len(frame_ptrs) + 1
                       /\ DropLast(frame_ptrs', 1) = frame_ptrs
                  ELSE IF Insn = "Ret"
                  THEN /\ frame_ptrs' = DropLast(frame_ptrs, 1)
                       /\ LET site == Last(hist.calls).site
                          IN  ip' = IF code[site + 1].op = "Call" THEN site + 2
                                    ELSE site + 9
                  ELSE frame_ptrs' = frame_ptrs
       /\ (Turn /\ Insn = "Halt") => frame_ptrs = <<>>]_vars

(***************************************************************************)
(* C35: bodies are skipped at top level                                    *)
(***************************************************************************)
\* The declarations of functions and methods the compiler noted.
FnEntries == { k \in 1..Len(compiler.log) : compiler.log[k].e = "fn" }

\* C35: every function and method begins with a Jmp whose target is the last element
\* of its own body, before the next declaration begins; and whenever the next
\* instruction lies inside the body of a function or method, a frame is open.
C35_BodiesNeedFrame ==
    status = "running"
        => /\ \A k \in FnEntries :
                LET at == compiler.log[k].at
                IN  /\ code[at + 1].op = "Jmp"
                    /\ code[at + 1].x # Placeholder
                    /\ at <= code[at + 1].x /\ code[at + 1].x < Len(code)
                    /\ \A j \in FnEntries :
                           compiler.log[j].at > at => compiler.log[j].at > code[at + 1].x
           /\ InBody(ip) => frame_ptrs # <<>>

\* With no frame open, the Jmp a declaration begins with has just passed control to
\* the element after its body.
C35_BodySkipped ==
    /\ status = "running"
    /\ frame_ptrs = <<>>
    /\ hist.op = "Jmp"
    /\ \E k \in 1..Len(compiler.log) :
         /\ compiler.log[k].e = "fn"
         /\ compiler.log[k].at = hist.from
         /\ compiler.log[k].at + 1 < code[compiler.log[k].at + 1].x
         /\ ip = code[compiler.log[k].at + 1].x + 1

(***************************************************************************)
(* C36: Jz                                                                 *)
(***************************************************************************)
\* C36: Jz on a stack that is not empty pops exactly one value and raises no error;
\* it passes control to its target exactly when the popped value is the bool false,
\* and to the next instruction for true and for every value that is no bool.
C36_Jz ==
    [][(Turn /\ Insn = "Jz" /\ stack # <<>>)
          => /\ status' = "running"
             /\ stack' = DropLast(stack, 1)
             /\ frame_ptrs' = frame_ptrs
             /\ ip' = IF Last(stack) = Bool(FALSE) THEN InsnArg + 1 ELSE ip + 1]_vars

\* The program whose condition is the number 0 ran its then-branch and halted.
C36_NumberConditionTaken ==
    /\ status = "halted"
    /\ ast = Program(NonBoolConditions[1])
    /\ hist.retval = Number(1)

(***************************************************************************)
(* C37: the end of a body without return                                   *)
(***************************************************************************)
\* The element i is the last element of the body of a function or method.
BodyEnd(i) ==
    \E k \in FnEntries : /\ compiler.log[k].at < i
                         /\ i = code[compiler.log[k].at + 1].x

\* C37: every Ret of the compiled program is the Ret of a return statement; and when
\* the run executes the last element of a body, it passes to the element after the
\* body with every frame still in place.
C37_NoImplicitReturn ==
    [][/\ (status = "compiling" /\ status' = "running")
            => \A i \in 1..Len(compiler'.code) :
                   compiler'.code[i].op = "Ret"
                       => \E r \in 1..Len(compiler'.returns) :
                              compiler'.returns[r].ret = i - 1
       /\ (Turn /\ status' = "running" /\ BodyEnd(ip))
            => /\ Insn # "Ret"
               /\ ip' = ip + 1
               /\ ~InBody(ip')
               /\ frame_ptrs' = frame_ptrs]_vars

\* The run has just left the body of a function through its end, the frame of the
\* call still open above the frame of main.
C37_FellThrough ==
    /\ status = "running"
    /\ hist.from > 0
    /\ BodyEnd(hist.from)
    /\ ip = hist.from + 1
    /\ Len(frame_ptrs) >= 2

(***************************************************************************)
(* C38: placeholders                                                       *)
(***************************************************************************)
\* The element at idx (0-based) was given its target by patch_jmp.
Patched(at) == \E k \in 1..Len(compiler.patches) : compiler.patches[k].idx = at

\* The places (0-based) where a placeholder was emitted: the skip of every function and
\* method, the Jz of every loop, the skip over the advancement of every for loop, the
\* Jz and the Jmp of every logical operator, the Jmp of every break, and every Jz.
PlaceholderSites ==
    { compiler.log[k].at : k \in FnEntries }
        \cup { compiler.loops[l].jz : l \in 1..Len(compiler.loops) }
        \cup { compiler.loops[l].jz + 1 : l \in ForLoops }
        \cup { compiler.logics[l].jz : l \in 1..Len(compiler.logics) }
        \cup { compiler.jumps[j].jmp : j \in JumpsOf("break") }
        \cup { i - 1 : i \in { j \in 1..Len(code) : code[j].op = "Jz" } }

\* C38: in a program that compiled, no Jmp and no Jz carries the placeholder; every
\* place where a placeholder was emitted was patched; every patch replaced a
\* placeholder, none was applied twice to the same place, and the target a patch wrote
\* is the target the jump has in the compiled code; a Jmp that was never patched goes
\* backwards (a loop's way back, a continue, the call of main).
C38_NoPlaceholderLeft ==
    (status # "compiling" /\ status # "pool" /\ ok(compiler)) =>
        LET P == compiler.patches
        IN  /\ code = compiler.code
            /\ \A i \in 1..Len(code) :
                   code[i].op \in {"Jmp", "Jz"} => code[i].x # Placeholder
            /\ \A at \in PlaceholderSites : Patched(at)
            /\ \A k \in 1..Len(P) :
                   /\ P[k].was = Placeholder
                   /\ P[k].idx + 1 \in 1..Len(code)
                   /\ code[P[k].idx + 1].op \in {"Jmp", "Jz"}
                   /\ code[P[k].idx + 1].x = P[k].now
                   /\ P[k].now >= P[k].idx
                   /\ \A l \in 1..Len(P) : P[l].idx = P[k].idx => l = k
            /\ \A i \in 1..Len(code) :
                   (code[i].op = "Jmp" /\ ~Patched(i - 1)) => code[i].x < i - 1

\* A program that compiled and halted had the Jmp of a break, the skip over the
\* advancement of a for loop and the skip of a function patched.
C38_BreakPatched ==
    /\ status = "halted"
    /\ \E j \in JumpsOf("break") : Patched(compiler.jumps[j].jmp)
    /\ \E l \in ForLoops : Patched(compiler.loops[l].jz + 1)
    /\ \E k \in FnEntries : Patched(compiler.log[k].at)

(***************************************************************************)
(* C39: pops and depth                                                     *)
(***************************************************************************)
\* The statements that were compiled inside the body of a function or method.
StatementsInBodies ==
    { n \in 1..Len(compiler.stmts) :
        \E k \in FnEntries : /\ compiler.log[k].at < compiler.stmts[n].at
                             /\ compiler.stmts[n].at <= code[compiler.log[k].at + 1].x }

\* The break and continue statements that were compiled inside a loop.
Cleanups ==
    { n \in 1..Len(compiler.stmts) :
        /\ compiler.stmts[n].k \in {"Break", "Continue"}
        /\ compiler.stmts[n].loop_depths # <<>> }

\* C39: at every statement inside a function body pops has depth + 1 entries; every
\* block took the counter pops[depth] off at its end; the cleanup of a break or
\* continue emits, for every d from loop_depths.top() + 1 to depth, a Pop of pops[d],
\* which exists; and when a function is done locals and pops are empty and depth is 0.
C39_PopsPerDepth ==
    (status # "compiling" /\ status # "pool" /\ ok(compiler)) =>
        /\ \A n \in StatementsInBodies :
               LET s == compiler.stmts[n]
               IN  s.depth >= 1 /\ Len(s.pops) = s.depth + 1
        /\ \A b \in 1..Len(compiler.blocks) :
               compiler.blocks[b].slot = compiler.blocks[b].depth
        /\ \A n \in Cleanups :
               LET s == compiler.stmts[n]
                   last_depth == Last(s.loop_depths)
               IN  /\ n \in StatementsInBodies
                   /\ last_depth <= s.depth
                   /\ \A d \in (last_depth + 1)..s.depth :
                          /\ d + 1 <= Len(s.pops)
                          /\ code[s.at + d - last_depth].op = "Pop"
                          /\ code[s.at + d - last_depth].x = s.pops[d + 1]
                   /\ code[s.at + s.depth - last_depth + 1].op = "Jmp"
        /\ \A k \in FnEntries :
               \E l \in (k + 1)..Len(compiler.log) :
                   /\ compiler.log[l].e = "left"
                   /\ compiler.log[l].name = compiler.log[k].name
        /\ \A l \in 1..Len(compiler.log) :
               compiler.log[l].e = "left"
                   => /\ compiler.log[l].locals = <<>>
                      /\ compiler.log[l].pops = <<>>
                      /\ compiler.log[l].depth = 0

\* A program that compiled and halted has a break two blocks deep inside its loop, and
\* the two counters its cleanup read differ.
C39_BreakTwoBlocksDeep ==
    /\ status = "halted"
    /\ \E n \in Cleanups :
           LET s == compiler.stmts[n]
           IN  /\ s.k = "Break"
               /\ s.depth >= Last(s.loop_depths) + 2
               /\ s.pops[s.depth + 1] # s.pops[s.depth]

====
